---------------------------- MODULE Spec2Model ----------------------------
(***************************************************************************)
(* A model of libnm-core/nm-keyfile.c: the keyfile reader                  *)
(* (nm_keyfile_read) and the keyfile writer (nm_keyfile_write).            *)
(*                                                                         *)
(* Strings are sequences of byte values (ASCII codes), so the character    *)
(* classes, the decimal conversions and the escaping of the C code are     *)
(* modelled by what they do.  A NULL character pointer is the one-element  *)
(* sequence <<-1>>.  The machine word is WordBits wide: guint32 ranges     *)
(* over 0 .. 2^WordBits - 1 and int over -2^(WordBits-1)..2^(WordBits-1)-1.*)
(***************************************************************************)
EXTENDS Integers, Sequences, FiniteSets, TLC

(***************************************************************************)
(* Bounds of the model.                                                    *)
(***************************************************************************)
\* width of int / guint32 in bits
WordBits == 10
\* number of read-handler invocations whose outcome the handler policy fixes
MaxCalls == 3

(***************************************************************************)
(* Characters and strings.                                                 *)
(***************************************************************************)
NULL == <<-1>>

\* the printable ASCII characters, code 32 (space) to 126 (tilde); the
\* back quote (code 96) cannot be written in a string and is spelled out
PrintableAscii ==
    << " ", "!", "\"", "#", "$", "%", "&", "'", "(", ")", "*", "+", ",", "-", ".", "/",
       "0", "1", "2", "3", "4", "5", "6", "7", "8", "9", ":", ";", "<", "=", ">", "?",
       "@", "A", "B", "C", "D", "E", "F", "G", "H", "I", "J", "K", "L", "M", "N", "O",
       "P", "Q", "R", "S", "T", "U", "V", "W", "X", "Y", "Z", "[", "\\", "]", "^", "_",
       "BACKQUOTE", "a", "b", "c", "d", "e", "f", "g", "h", "i", "j", "k", "l", "m", "n", "o",
       "p", "q", "r", "s", "t", "u", "v", "w", "x", "y", "z", "{", "|", "}", "~" >>

Ord(c) == 31 + (CHOOSE i \in 1..Len(PrintableAscii) : PrintableAscii[i] = c)

\* the C string literal whose characters are listed in q
Str(q) == [i \in 1..Len(q) |-> Ord(q[i])]

g_ascii_isdigit(ch) == ch \in 48..57
g_ascii_isspace(ch) == ch \in {9, 10, 11, 12, 13, 32}
g_ascii_isprint(ch) == ch \in 32..126

\* the value of Body for the value e: a local of the C code that is
\* assigned once and read several times
Let(e, Body(_)) == Body(e)

\* strchr (characters, ch) != NULL, for ch != 0
strchr(characters, ch) == \E i \in 1..Len(characters) : characters[i] = ch

g_str_has_prefix(s, prefix) ==
    /\ Len(s) >= Len(prefix)
    /\ SubSeq(s, 1, Len(prefix)) = prefix

\* s from its (1-based) position i on
Tail_from(s, i) == SubSeq(s, i, Len(s))

RECURSIVE Pow2(_)
Pow2(n) == IF n = 0 THEN 1 ELSE 2 * Pow2(n - 1)

G_MAXUINT32 == Pow2(WordBits) - 1
G_MAXINT32 == Pow2(WordBits - 1) - 1
G_MININT32 == 0 - Pow2(WordBits - 1)

\* (int) v for a guint v, and (guint) i for an int i
uint_to_int(v) == IF v > G_MAXINT32 THEN v - Pow2(WordBits) ELSE v
int_to_uint(i) == IF i < 0 THEN i + Pow2(WordBits) ELSE i

\* printf ("%u") of a non-negative number
RECURSIVE fmt_unsigned(_)
fmt_unsigned(n) ==
    IF n < 10 THEN << 48 + n >>
    ELSE Append(fmt_unsigned(n \div 10), 48 + (n % 10))

\* printf ("%d")
fmt_int(n) == IF n < 0 THEN << 45 >> \o fmt_unsigned(0 - n) ELSE fmt_unsigned(n)

\* the value of a string of decimal digits, capped above cap so that no
\* intermediate value leaves the integers of the model
RECURSIVE digits_value(_, _)
digits_value(s, cap) ==
    IF s = << >> THEN 0
    ELSE LET hi == digits_value(SubSeq(s, 1, Len(s) - 1), cap)
             v  == 10 * hi + (s[Len(s)] - 48)
         IN  IF hi > cap \/ v > cap THEN cap + 1 ELSE v

all_digits(s) == \A i \in 1..Len(s) : g_ascii_isdigit(s[i])


\* the number of leading characters of s that satisfy the class test
RECURSIVE span_space(_)
span_space(s) ==
    IF s # << >> /\ g_ascii_isspace(s[1]) THEN 1 + span_space(Tail(s)) ELSE 0

RECURSIVE span_digits(_)
span_digits(s) ==
    IF s # << >> /\ g_ascii_isdigit(s[1]) THEN 1 + span_digits(Tail(s)) ELSE 0

\* strtol-like scan of s: leading white space, an optional sign, digits.
\* ok: at least one digit was read; rest: what follows the digits
scan_digits(b, n, neg, cap) ==
    [ ok   |-> n > 0,
      val  |-> IF neg THEN 0 - digits_value(SubSeq(b, 1, n), cap)
               ELSE digits_value(SubSeq(b, 1, n), cap),
      rest |-> Tail_from(b, n + 1) ]

scan_sign(a, cap) ==
    IF a # << >> /\ a[1] \in {43, 45}
    THEN scan_digits(Tail(a), span_digits(Tail(a)), a[1] = 45, cap)
    ELSE scan_digits(a, span_digits(a), FALSE, cap)

scan_integer(s, cap) == scan_sign(Tail_from(s, span_space(s) + 1), cap)

\* _nm_utils_ascii_str_to_int64 (str, 10, min, max, fallback): the whole
\* string (but for surrounding white space) must be one number in min..max
ascii_str_to_int64(str, min, max, fallback) ==
    Let(scan_integer(str, max),
        LAMBDA sc : IF /\ sc.ok
                       /\ span_space(sc.rest) = Len(sc.rest)
                       /\ sc.val >= min
                       /\ sc.val <= max
                    THEN sc.val
                    ELSE fallback)

(***************************************************************************)
(* The GKeyFile store: a sequence of groups, each a name and a sequence of *)
(* (key, value) entries in insertion order; values are strings.            *)
(***************************************************************************)
EmptyKeyFile == << >>

\* the short group names of nm-keyfile-utils (alias -> setting name)
Alias_wifi          == Str(<<"w","i","f","i">>)
Alias_ethernet      == Str(<<"e","t","h","e","r","n","e","t">>)
NM_SETTING_WIRELESS_SETTING_NAME         == Str(<<"8","0","2","-","1","1","-","w","i","r","e","l","e","s","s">>)
NM_SETTING_WIRED_SETTING_NAME            == Str(<<"8","0","2","-","3","-","e","t","h","e","r","n","e","t">>)

nm_keyfile_plugin_get_alias_for_setting_name(setting_name) ==
    IF setting_name = NM_SETTING_WIRELESS_SETTING_NAME THEN Alias_wifi
    ELSE IF setting_name = NM_SETTING_WIRED_SETTING_NAME THEN Alias_ethernet
    ELSE NULL

nm_keyfile_plugin_get_setting_name_for_alias(alias) ==
    IF alias = Alias_wifi THEN NM_SETTING_WIRELESS_SETTING_NAME
    ELSE IF alias = Alias_ethernet THEN NM_SETTING_WIRED_SETTING_NAME
    ELSE NULL

\* index of the group named group in kf, 0 when there is none
g_key_file_group_index(kf, group) ==
    IF \E i \in 1..Len(kf) : kf[i].name = group
    THEN CHOOSE i \in 1..Len(kf) : kf[i].name = group
    ELSE 0

\* the nm_keyfile_plugin_kf_* getters look the group up by the setting name
\* and, failing that, by its alias
kf_group_index(kf, group) ==
    Let(g_key_file_group_index(kf, group),
        LAMBDA i : IF i # 0 THEN i
                   ELSE g_key_file_group_index(
                            kf, nm_keyfile_plugin_get_alias_for_setting_name(group)))

kf_entries(kf, group) ==
    Let(kf_group_index(kf, group), LAMBDA i : IF i = 0 THEN << >> ELSE kf[i].entries)

entry_index(entries, key) ==
    IF \E j \in 1..Len(entries) : entries[j].key = key
    THEN CHOOSE j \in 1..Len(entries) : entries[j].key = key
    ELSE 0

nm_keyfile_plugin_kf_has_key(kf, group, key) ==
    entry_index(kf_entries(kf, group), key) # 0

\* g_key_file_get_value: the stored text of the value, NULL when missing
entry_value(es, key) ==
    Let(entry_index(es, key), LAMBDA j : IF j = 0 THEN NULL ELSE es[j].value)

nm_keyfile_plugin_kf_get_value(kf, group, key) == entry_value(kf_entries(kf, group), key)

is_utf8_continuation(b) == b \in 128..191

\* g_utf8_validate (data, Len(data), NULL): NUL bytes are not accepted
RECURSIVE g_utf8_validate(_)
g_utf8_validate(data) ==
    IF data = << >> THEN TRUE
    ELSE IF data[1] \in 1..127 THEN g_utf8_validate(Tail(data))
    ELSE IF data[1] \in 194..223
    THEN /\ Len(data) >= 2
         /\ is_utf8_continuation(data[2])
         /\ g_utf8_validate(Tail_from(data, 3))
    ELSE IF data[1] \in 224..239
    THEN /\ Len(data) >= 3
         /\ is_utf8_continuation(data[2])
         /\ is_utf8_continuation(data[3])
         /\ (data[1] = 224 => data[2] >= 160)
         /\ (data[1] = 237 => data[2] <= 159)
         /\ g_utf8_validate(Tail_from(data, 4))
    ELSE IF data[1] \in 240..244
    THEN /\ Len(data) >= 4
         /\ is_utf8_continuation(data[2])
         /\ is_utf8_continuation(data[3])
         /\ is_utf8_continuation(data[4])
         /\ (data[1] = 240 => data[2] >= 144)
         /\ (data[1] = 244 => data[2] <= 143)
         /\ g_utf8_validate(Tail_from(data, 5))
    ELSE FALSE

\* g_key_file_parse_string_as_value: leading blanks become \s and \t, then
\* backslash, newline and carriage return are escaped
RECURSIVE g_key_file_parse_string_as_value(_, _)
g_key_file_parse_string_as_value(string, parsing_leading_space) ==
    IF string = << >> THEN << >>
    ELSE IF parsing_leading_space /\ string[1] = 32
    THEN << 92, 115 >> \o g_key_file_parse_string_as_value(Tail(string), TRUE)
    ELSE IF parsing_leading_space /\ string[1] = 9
    THEN << 92, 116 >> \o g_key_file_parse_string_as_value(Tail(string), TRUE)
    ELSE IF string[1] = 92
    THEN << 92, 92 >> \o g_key_file_parse_string_as_value(Tail(string), FALSE)
    ELSE IF string[1] = 10
    THEN << 92, 110 >> \o g_key_file_parse_string_as_value(Tail(string), FALSE)
    ELSE IF string[1] = 13
    THEN << 92, 114 >> \o g_key_file_parse_string_as_value(Tail(string), FALSE)
    ELSE << string[1] >> \o g_key_file_parse_string_as_value(Tail(string), FALSE)

\* g_key_file_parse_value_as_string: the escapes \s \n \t \r \\ are decoded;
\* a backslash before any other character is kept with that character, and
\* one at the end of the value is dropped
RECURSIVE g_key_file_parse_value_as_string(_)
g_key_file_parse_value_as_string(value) ==
    IF value = << >> THEN << >>
    ELSE IF value[1] # 92
    THEN << value[1] >> \o g_key_file_parse_value_as_string(Tail(value))
    ELSE IF Len(value) = 1 THEN << >>
    ELSE IF value[2] = 115
    THEN << 32 >> \o g_key_file_parse_value_as_string(Tail_from(value, 3))
    ELSE IF value[2] = 110
    THEN << 10 >> \o g_key_file_parse_value_as_string(Tail_from(value, 3))
    ELSE IF value[2] = 116
    THEN << 9 >> \o g_key_file_parse_value_as_string(Tail_from(value, 3))
    ELSE IF value[2] = 114
    THEN << 13 >> \o g_key_file_parse_value_as_string(Tail_from(value, 3))
    ELSE IF value[2] = 92
    THEN << 92 >> \o g_key_file_parse_value_as_string(Tail_from(value, 3))
    ELSE << 92, value[2] >> \o g_key_file_parse_value_as_string(Tail_from(value, 3))

\* g_key_file_get_string: the decoded value, NULL when the key is missing
\* or its value is not valid UTF-8
nm_keyfile_plugin_kf_get_string(kf, group, key) ==
    Let(nm_keyfile_plugin_kf_get_value(kf, group, key),
        LAMBDA value : IF value = NULL THEN NULL
                       ELSE IF ~ g_utf8_validate(value) THEN NULL
                       ELSE g_key_file_parse_value_as_string(value))

nm_keyfile_plugin_kf_get_keys(kf, group) ==
    Let(kf_entries(kf, group), LAMBDA es : [j \in 1..Len(es) |-> es[j].key])

\* g_key_file_set_value: the group is created when missing; an existing key
\* keeps its place and gets the new value
entries_set_value(es, key, value) ==
    Let(entry_index(es, key),
        LAMBDA j : IF j = 0 THEN Append(es, [key |-> key, value |-> value])
                   ELSE [es EXCEPT ![j].value = value])

g_key_file_set_value(kf, group, key, value) ==
    Let(g_key_file_group_index(kf, group),
        LAMBDA i : IF i = 0
                   THEN Append(kf, [name    |-> group,
                                    entries |-> << [key |-> key, value |-> value] >>])
                   ELSE [kf EXCEPT ![i].entries = entries_set_value(@, key, value)])

\* the nm_keyfile_plugin_kf_* setters write under the alias when there is one
nm_keyfile_plugin_kf_set_value(kf, group, key, value) ==
    g_key_file_set_value(
        kf,
        Let(nm_keyfile_plugin_get_alias_for_setting_name(group),
            LAMBDA alias : IF alias = NULL THEN group ELSE alias),
        key, value)

\* g_key_file_set_string: the encoded string is stored
nm_keyfile_plugin_kf_set_string(kf, group, key, string) ==
    nm_keyfile_plugin_kf_set_value(kf, group, key,
                                   g_key_file_parse_string_as_value(string, TRUE))

\* g_key_file_get_integer: 0 on a missing key, on a value that is not a
\* number and on a number outside int
g_key_file_parse_value_as_integer(value) ==
    Let(scan_integer(value, G_MAXINT32 + 1),
        LAMBDA sc : IF /\ value # NULL
                       /\ sc.ok
                       /\ (sc.rest = << >> \/ g_ascii_isspace(sc.rest[1]))
                       /\ sc.val >= G_MININT32
                       /\ sc.val <= G_MAXINT32
                    THEN sc.val
                    ELSE 0)

nm_keyfile_plugin_kf_get_integer(kf, group, key) ==
    g_key_file_parse_value_as_integer(nm_keyfile_plugin_kf_get_value(kf, group, key))

nm_keyfile_plugin_kf_set_integer(kf, group, key, value) ==
    nm_keyfile_plugin_kf_set_value(kf, group, key, fmt_int(value))

\* g_key_file_set_integer_list on bytes: every element in decimal, each
\* followed by the list separator ';'
RECURSIVE fmt_integer_list(_)
fmt_integer_list(data) ==
    IF data = << >> THEN << >>
    ELSE fmt_unsigned(data[1]) \o << 59 >> \o fmt_integer_list(Tail(data))

nm_keyfile_plugin_kf_set_integer_list_uint8(kf, group, key, data) ==
    nm_keyfile_plugin_kf_set_value(kf, group, key, fmt_integer_list(data))


(***************************************************************************)
(* Names of settings and properties (the NM_SETTING_* string macros).      *)
(***************************************************************************)
NM_SETTING_CONNECTION_SETTING_NAME == Str(<<"c","o","n","n","e","c","t","i","o","n">>)
NM_SETTING_IP4_CONFIG_SETTING_NAME == Str(<<"i","p","v","4">>)
NM_SETTING_IP6_CONFIG_SETTING_NAME == Str(<<"i","p","v","6">>)
NM_SETTING_WIRELESS_SECURITY_SETTING_NAME == Str(<<"8","0","2","-","1","1","-","w","i","r","e","l","e","s","s","-","s","e","c","u","r","i","t","y">>)
NM_SETTING_VLAN_SETTING_NAME == Str(<<"v","l","a","n">>)
NM_SETTING_TC_CONFIG_SETTING_NAME == Str(<<"t","c">>)
NM_SETTING_802_1X_SETTING_NAME == Str(<<"8", "0", "2", "-", "1", "x">>)
NM_SETTING_802_1X_CA_CERT == Str(<<"c", "a", "-", "c", "e", "r", "t">>)
NM_SETTING_802_1X_CLIENT_CERT == Str(<<"c", "l", "i", "e", "n", "t", "-", "c", "e", "r", "t">>)
NM_SETTING_VPN_SETTING_NAME == Str(<<"v", "p", "n">>)
NM_SETTING_VPN_DATA == Str(<<"d", "a", "t", "a">>)
NM_SETTING_VPN_PERSISTENT == Str(<<"p", "e", "r", "s", "i", "s", "t", "e", "n", "t">>)
NM_SETTING_VPN_SECRETS == Str(<<"s", "e", "c", "r", "e", "t", "s">>)
NM_SETTING_VPN_SERVICE_TYPE == Str(<<"s", "e", "r", "v", "i", "c", "e", "-", "t", "y", "p", "e">>)
NM_SETTING_VPN_TIMEOUT == Str(<<"t", "i", "m", "e", "o", "u", "t">>)
NM_SETTING_VPN_USER_NAME == Str(<<"u", "s", "e", "r", "-", "n", "a", "m", "e">>)
NM_SETTING_TEAM_SETTING_NAME == Str(<<"t","e","a","m">>)
NM_KEYFILE_GROUP_VPN_SECRETS == Str(<<"v","p","n","-","s","e","c","r","e","t","s">>)
NM_SETTING_NAME == Str(<<"n","a","m","e">>)
NM_SETTING_CONNECTION_UUID == Str(<<"u","u","i","d">>)
NM_SETTING_CONNECTION_INTERFACE_NAME == Str(<<"i","n","t","e","r","f","a","c","e","-","n","a","m","e">>)
NM_SETTING_CONNECTION_ID == Str(<<"i","d">>)
NM_SETTING_CONNECTION_TYPE == Str(<<"t","y","p","e">>)
NM_SETTING_CONNECTION_READ_ONLY == Str(<<"r","e","a","d","-","o","n","l","y">>)
NM_SETTING_IP_CONFIG_ADDRESSES == Str(<<"a","d","d","r","e","s","s","e","s">>)
NM_SETTING_IP_CONFIG_DNS == Str(<<"d","n","s">>)
NM_SETTING_IP_CONFIG_GATEWAY == Str(<<"g","a","t","e","w","a","y">>)
NM_SETTING_IP_CONFIG_ROUTES == Str(<<"r","o","u","t","e","s">>)
NM_SETTING_IP_CONFIG_METHOD == Str(<<"m","e","t","h","o","d">>)
NM_SETTING_IP6_CONFIG_ADDR_GEN_MODE == Str(<<"a","d","d","r","-","g","e","n","-","m","o","d","e">>)
NM_SETTING_WIRELESS_SSID == Str(<<"s","s","i","d">>)
NM_SETTING_WIRELESS_MTU == Str(<<"m","t","u">>)
NM_SETTING_WIRELESS_SECURITY_PSK == Str(<<"p","s","k">>)
NM_SETTING_WIRELESS_SECURITY_PSK_FLAGS == Str(<<"p","s","k","-","f","l","a","g","s">>)
NM_SETTING_WIRELESS_SECURITY_KEY_MGMT == Str(<<"k","e","y","-","m","g","m","t">>)
NM_SETTING_VLAN_FLAGS == Str(<<"f","l","a","g","s">>)
NM_SETTING_VLAN_ID == Str(<<"i","d">>)
NM_SETTING_TC_CONFIG_QDISCS == Str(<<"q","d","i","s","c","s">>)
NM_SETTING_TC_CONFIG_TFILTERS == Str(<<"t","f","i","l","t","e","r","s">>)
NM_SETTING_TEAM_CONFIG == Str(<<"c","o","n","f","i","g">>)
NM_SETTING_WIRELESS_BSSID == Str(<<"b", "s", "s", "i", "d">>)
NM_SETTING_WIRELESS_CLONED_MAC_ADDRESS == Str(<<"c", "l", "o", "n", "e", "d", "-", "m", "a", "c", "-", "a", "d", "d", "r", "e", "s", "s">>)
NM_SETTING_WIRELESS_MAC_ADDRESS == Str(<<"m", "a", "c", "-", "a", "d", "d", "r", "e", "s", "s">>)
NM_SETTING_802_1X_PASSWORD_RAW == Str(<<"p", "a", "s", "s", "w", "o", "r", "d", "-", "r", "a", "w">>)
NM_SETTING_802_1X_PHASE2_CA_CERT == Str(<<"p", "h", "a", "s", "e", "2", "-", "c", "a", "-", "c", "e", "r", "t">>)
NM_SETTING_802_1X_PHASE2_CLIENT_CERT == Str(<<"p", "h", "a", "s", "e", "2", "-", "c", "l", "i", "e", "n", "t", "-", "c", "e", "r", "t">>)
NM_SETTING_802_1X_PHASE2_PRIVATE_KEY == Str(<<"p", "h", "a", "s", "e", "2", "-", "p", "r", "i", "v", "a", "t", "e", "-", "k", "e", "y">>)
NM_SETTING_802_1X_PRIVATE_KEY == Str(<<"p", "r", "i", "v", "a", "t", "e", "-", "k", "e", "y">>)
NM_SETTING_WIRED_CLONED_MAC_ADDRESS == Str(<<"c", "l", "o", "n", "e", "d", "-", "m", "a", "c", "-", "a", "d", "d", "r", "e", "s", "s">>)
NM_SETTING_WIRED_MAC_ADDRESS == Str(<<"m", "a", "c", "-", "a", "d", "d", "r", "e", "s", "s">>)
NM_SETTING_BLUETOOTH_SETTING_NAME == Str(<<"b", "l", "u", "e", "t", "o", "o", "t", "h">>)
NM_SETTING_BLUETOOTH_BDADDR == Str(<<"b", "d", "a", "d", "d", "r">>)
NM_SETTING_BOND_SETTING_NAME == Str(<<"b", "o", "n", "d">>)
NM_SETTING_BOND_OPTIONS == Str(<<"o", "p", "t", "i", "o", "n", "s">>)
NM_SETTING_BRIDGE_SETTING_NAME == Str(<<"b", "r", "i", "d", "g", "e">>)
NM_SETTING_BRIDGE_MAC_ADDRESS == Str(<<"m", "a", "c", "-", "a", "d", "d", "r", "e", "s", "s">>)
NM_SETTING_INFINIBAND_SETTING_NAME == Str(<<"i", "n", "f", "i", "n", "i", "b", "a", "n", "d">>)
NM_SETTING_INFINIBAND_MAC_ADDRESS == Str(<<"m", "a", "c", "-", "a", "d", "d", "r", "e", "s", "s">>)
NM_SETTING_SERIAL_SETTING_NAME == Str(<<"s", "e", "r", "i", "a", "l">>)
NM_SETTING_SERIAL_PARITY == Str(<<"p", "a", "r", "i", "t", "y">>)
NM_SETTING_SRIOV_SETTING_NAME == Str(<<"s", "r", "i", "o", "v">>)
NM_SETTING_SRIOV_VFS == Str(<<"v", "f", "s">>)
NM_SETTING_TEAM_LINK_WATCHERS == Str(<<"l", "i", "n", "k", "-", "w", "a", "t", "c", "h", "e", "r", "s">>)
NM_SETTING_TEAM_MCAST_REJOIN_COUNT == Str(<<"m", "c", "a", "s", "t", "-", "r", "e", "j", "o", "i", "n", "-", "c", "o", "u", "n", "t">>)
NM_SETTING_TEAM_MCAST_REJOIN_INTERVAL == Str(<<"m", "c", "a", "s", "t", "-", "r", "e", "j", "o", "i", "n", "-", "i", "n", "t", "e", "r", "v", "a", "l">>)
NM_SETTING_TEAM_NOTIFY_PEERS_COUNT == Str(<<"n", "o", "t", "i", "f", "y", "-", "p", "e", "e", "r", "s", "-", "c", "o", "u", "n", "t">>)
NM_SETTING_TEAM_NOTIFY_PEERS_INTERVAL == Str(<<"n", "o", "t", "i", "f", "y", "-", "p", "e", "e", "r", "s", "-", "i", "n", "t", "e", "r", "v", "a", "l">>)
NM_SETTING_TEAM_RUNNER == Str(<<"r", "u", "n", "n", "e", "r">>)
NM_SETTING_TEAM_RUNNER_ACTIVE == Str(<<"r", "u", "n", "n", "e", "r", "-", "a", "c", "t", "i", "v", "e">>)
NM_SETTING_TEAM_RUNNER_AGG_SELECT_POLICY == Str(<<"r", "u", "n", "n", "e", "r", "-", "a", "g", "g", "-", "s", "e", "l", "e", "c", "t", "-", "p", "o", "l", "i", "c", "y">>)
NM_SETTING_TEAM_RUNNER_FAST_RATE == Str(<<"r", "u", "n", "n", "e", "r", "-", "f", "a", "s", "t", "-", "r", "a", "t", "e">>)
NM_SETTING_TEAM_RUNNER_HWADDR_POLICY == Str(<<"r", "u", "n", "n", "e", "r", "-", "h", "w", "a", "d", "d", "r", "-", "p", "o", "l", "i", "c", "y">>)
NM_SETTING_TEAM_RUNNER_MIN_PORTS == Str(<<"r", "u", "n", "n", "e", "r", "-", "m", "i", "n", "-", "p", "o", "r", "t", "s">>)
NM_SETTING_TEAM_RUNNER_SYS_PRIO == Str(<<"r", "u", "n", "n", "e", "r", "-", "s", "y", "s", "-", "p", "r", "i", "o">>)
NM_SETTING_TEAM_RUNNER_TX_BALANCER == Str(<<"r", "u", "n", "n", "e", "r", "-", "t", "x", "-", "b", "a", "l", "a", "n", "c", "e", "r">>)
NM_SETTING_TEAM_RUNNER_TX_BALANCER_INTERVAL == Str(<<"r", "u", "n", "n", "e", "r", "-", "t", "x", "-", "b", "a", "l", "a", "n", "c", "e", "r", "-", "i", "n", "t", "e", "r", "v", "a", "l">>)
NM_SETTING_TEAM_RUNNER_TX_HASH == Str(<<"r", "u", "n", "n", "e", "r", "-", "t", "x", "-", "h", "a", "s", "h">>)
NM_SETTING_TEAM_PORT_SETTING_NAME == Str(<<"t", "e", "a", "m", "-", "p", "o", "r", "t">>)
NM_SETTING_TEAM_PORT_LACP_KEY == Str(<<"l", "a", "c", "p", "-", "k", "e", "y">>)
NM_SETTING_TEAM_PORT_LACP_PRIO == Str(<<"l", "a", "c", "p", "-", "p", "r", "i", "o">>)
NM_SETTING_TEAM_PORT_LINK_WATCHERS == Str(<<"l", "i", "n", "k", "-", "w", "a", "t", "c", "h", "e", "r", "s">>)
NM_SETTING_TEAM_PORT_PRIO == Str(<<"p", "r", "i", "o">>)
NM_SETTING_TEAM_PORT_QUEUE_ID == Str(<<"q", "u", "e", "u", "e", "-", "i", "d">>)
NM_SETTING_TEAM_PORT_STICKY == Str(<<"s", "t", "i", "c", "k", "y">>)
NM_SETTING_USER_SETTING_NAME == Str(<<"u", "s", "e", "r">>)
NM_SETTING_USER_DATA == Str(<<"d", "a", "t", "a">>)
NM_SETTING_WIMAX_SETTING_NAME == Str(<<"w", "i", "m", "a", "x">>)
NM_SETTING_WIMAX_MAC_ADDRESS == Str(<<"m", "a", "c", "-", "a", "d", "d", "r", "e", "s", "s">>)

(***************************************************************************)
(* Settings and the reader context.                                        *)
(*                                                                         *)
(* A setting is a name and a function from property names to values.  The  *)
(* KeyfileReaderInfo holds the keyfile, the handler, the error slot, the   *)
(* current group and the setting under construction.  The read handler is  *)
(* a policy: the set of its invocations (counted from 1) on which it sets  *)
(* the error slot.  The log records, in order, every handler invocation    *)
(* and every property assignment of one nm_keyfile_read call.              *)
(***************************************************************************)
NoSetting == [name |-> NULL, props |-> << >>]

NM_KEYFILE_WARN_SEVERITY_INFO == "INFO"
NM_KEYFILE_WARN_SEVERITY_INFO_MISSING_FILE == "INFO_MISSING_FILE"
NM_KEYFILE_WARN_SEVERITY_WARN == "WARN"

WarnEvent(n, property_name, severity, veto) ==
    [ev |-> "warn", key |-> property_name, n |-> n, sev |-> severity, veto |-> veto]

SetEvent(key) ==
    [ev |-> "set", key |-> key, n |-> 0, sev |-> "-", veto |-> FALSE]

\* the handler sets the error slot on its invocations in info.vetoes; an
\* error that is already set stays (g_set_error does not overwrite)
_handle_warn(info, property_name, severity) ==
    LET n    == info.ncalls + 1
        veto == n \in info.vetoes
    IN  [info EXCEPT !.ncalls = n,
                     !.error  = IF veto /\ @ = 0 THEN n ELSE @,
                     !.log    = Append(@, WarnEvent(n, property_name, severity, veto))]

\* a macro that fails the read when there is no handler to ask
handle_warn_or_fail(info, property_name, severity) ==
    IF info.handler THEN _handle_warn(info, property_name, severity)
    ELSE [info EXCEPT !.error = 1]

\* the macro handle_warn: the handler is called when there is one; the
\* value of the macro is info.error = 0 of the result
handle_warn(info, property_name, severity) ==
    IF info.handler THEN _handle_warn(info, property_name, severity) ELSE info

\* what the call has allocated and not released yet is in info.live
Live_groups == Str(<<"g", "r", "o", "u", "p", "s">>)
Live_setting == Str(<<"s", "e", "t", "t", "i", "n", "g">>)

allocated(info, what) == [info EXCEPT !.live = @ \cup {what}]

released(info, what) == [info EXCEPT !.live = @ \ {what}]

\* g_object_set (setting, key, value, NULL)
g_object_set(info, key, value) ==
    [info EXCEPT !.setting.props[key] = value,
                 !.log = Append(@, SetEvent(key))]

(***************************************************************************)
(* IP addresses as the C library and NMIPAddress / NMIPRoute see them.     *)
(***************************************************************************)
AF_INET == "AF_INET"
AF_INET6 == "AF_INET6"

\* the pieces of s between the occurrences of the character sep
RECURSIVE split_at(_, _)
split_at(s, sep) ==
    IF ~ strchr(s, sep) THEN << s >>
    ELSE LET k == CHOOSE i \in 1..Len(s) :
                      s[i] = sep /\ \A j \in 1..(i - 1) : s[j] # sep
         IN  << SubSeq(s, 1, k - 1) >> \o split_at(Tail_from(s, k + 1), sep)

is_hex_digit(ch) == ch \in (48..57) \cup (97..102) \cup (65..70)

\* inet_pton (AF_INET, s): four decimal fields of one to three digits, each
\* at most 255 and without a leading zero
inet_pton4(s) ==
    LET parts == split_at(s, 46)
    IN  /\ Len(parts) = 4
        /\ \A i \in 1..4 :
               /\ Len(parts[i]) \in 1..3
               /\ all_digits(parts[i])
               /\ (Len(parts[i]) > 1 => parts[i][1] # 48)
               /\ digits_value(parts[i], 255) <= 255

\* inet_pton (AF_INET6, s) for the addresses without an embedded IPv4 part:
\* groups of one to four hex digits separated by ':', eight of them, or
\* fewer with one "::" standing for the missing ones
inet_pton6(s) ==
    LET parts  == split_at(s, 58)
        groups == {i \in 1..Len(parts) : parts[i] # << >>}
        dc     == {i \in 1..(Len(s) - 1) : s[i] = 58 /\ s[i + 1] = 58}
    IN  /\ Len(s) >= 2
        /\ \A i \in 1..Len(s) : is_hex_digit(s[i]) \/ s[i] = 58
        /\ \A i \in 1..Len(parts) : Len(parts[i]) <= 4
        /\ Cardinality(dc) <= 1
        /\ (s[1] = 58 => s[2] = 58)
        /\ (s[Len(s)] = 58 => s[Len(s) - 1] = 58)
        /\ IF dc = {} THEN Cardinality(groups) = 8 ELSE Cardinality(groups) <= 7

nm_utils_ipaddr_valid(family, s) ==
    IF family = AF_INET THEN inet_pton4(s) ELSE inet_pton6(s)

\* the address string as NMIPAddress / NMIPRoute store it (inet_ntop of the
\* parsed address): hex digits in lower case
canonicalize_ip(s) ==
    [i \in 1..Len(s) |-> IF s[i] \in 65..70 THEN s[i] + 32 ELSE s[i]]

\* the unspecified address of the family, 0.0.0.0 or ::
addr_any(family) ==
    IF family = AF_INET THEN Str(<<"0", ".", "0", ".", "0", ".", "0">>)
    ELSE Str(<<":", ":">>)

\* an address, a route, or no item (a NULL pointer)
NoItem == [kind |-> "none", addr |-> NULL, prefix |-> 0, gw |-> NULL,
           metric |-> -1, attrs |-> << >>]

max_prefix(family) == IF family = AF_INET THEN 32 ELSE 128

\* nm_ip_address_new: NULL for an invalid address or prefix
nm_ip_address_new(family, addr, prefix) ==
    IF nm_utils_ipaddr_valid(family, addr) /\ prefix <= max_prefix(family)
    THEN [kind |-> "address", addr |-> canonicalize_ip(addr), prefix |-> prefix,
          gw |-> NULL, metric |-> -1, attrs |-> << >>]
    ELSE NoItem

\* nm_ip_route_new: NULL for an invalid destination, prefix, next hop or
\* metric; an unspecified next hop is stored as no next hop
nm_ip_route_new(family, dest, prefix, next_hop, metric) ==
    IF /\ nm_utils_ipaddr_valid(family, dest)
       /\ prefix <= max_prefix(family)
       /\ (next_hop # NULL => nm_utils_ipaddr_valid(family, next_hop))
       /\ metric >= -1
       /\ metric <= G_MAXUINT32
    THEN [kind |-> "route", addr |-> canonicalize_ip(dest), prefix |-> prefix,
          gw |-> IF next_hop = NULL \/ canonicalize_ip(next_hop) = addr_any(family)
                 THEN NULL ELSE canonicalize_ip(next_hop),
          metric |-> metric, attrs |-> << >>]
    ELSE NoItem

(***************************************************************************)
(* Reading addresses and routes.                                           *)
(***************************************************************************)
\* get_one_int; with_info is FALSE for the call with info = NULL and
\* property_name = NULL, which raises no warning
get_one_int(info, with_info, property_name, str, max_val) ==
    Let(IF str = NULL \/ str = << >> THEN -1
        ELSE ascii_str_to_int64(str, 0, max_val, -1),
        LAMBDA tmp :
            IF tmp = -1
            THEN [info |-> IF with_info
                           THEN handle_warn(info, property_name,
                                            NM_KEYFILE_WARN_SEVERITY_WARN)
                           ELSE info,
                  ok |-> FALSE, out |-> 0]
            ELSE [info |-> info, ok |-> TRUE, out |-> tmp])

\* the item made by nm_ip_address_new / nm_ip_route_new and the warning when
\* it is NULL
built_item(info, property_name, item) ==
    [info |-> IF item = NoItem
              THEN handle_warn(info, property_name, NM_KEYFILE_WARN_SEVERITY_WARN)
              ELSE info,
     item |-> item]

build_address(info, family, address_str, plen, property_name) ==
    built_item(info, property_name, nm_ip_address_new(family, address_str, plen))

\* the last step of build_route: nm_ip_route_new and its warning
build_route_new(info, property_name, family, dest_str, plen, gateway_str, metric) ==
    built_item(info, property_name,
               nm_ip_route_new(family, dest_str, plen, gateway_str, metric))

\* build_route without the step that parses the metric field
build_route_metric_ignored(info, property_name, family, dest_str, plen, gateway_str, metric_str, metric) ==
    build_route_new(info, property_name, family, dest_str, plen, gateway_str, metric)

\* the second step of build_route: the metric field
build_route_metric(info, property_name, family, dest_str, plen, gateway_str, metric_str, metric) ==
    IF metric_str # NULL
    THEN Let(get_one_int(info, TRUE, property_name, metric_str, G_MAXUINT32),
             LAMBDA g : IF ~ g.ok THEN [info |-> g.info, item |-> NoItem]
                        ELSE build_route_new(g.info, property_name, family, dest_str,
                                             plen, gateway_str, g.out))
    ELSE build_route_new(info, property_name, family, dest_str, plen, gateway_str, metric)

\* the workaround of build_route without the test of the family
build_route_workaround_any_family(info, property_name, family, dest_str, plen, metric_str, g) ==
    IF metric_str = NULL /\ g.ok
    THEN build_route_metric(info, property_name, family, dest_str, plen,
                            NULL, metric_str, g.out)
    ELSE [info |-> IF info.error = 0
                   THEN handle_warn(info, property_name, NM_KEYFILE_WARN_SEVERITY_WARN)
                   ELSE info,
          item |-> NoItem]

\* the first step of build_route, for a gateway field that is no address;
\* g is what get_one_int made of the field
build_route_workaround(info, property_name, family, dest_str, plen, metric_str, g) ==
    IF family = AF_INET6 /\ metric_str = NULL /\ g.ok
    THEN \* the workaround: the gateway field is the metric
         build_route_metric(info, property_name, family, dest_str, plen,
                            NULL, metric_str, g.out)
    ELSE [info |-> IF info.error = 0
                   THEN handle_warn(info, property_name, NM_KEYFILE_WARN_SEVERITY_WARN)
                   ELSE info,
          item |-> NoItem]

build_route(info, property_name, family, dest_str, plen, gateway_str, metric_str) ==
    IF gateway_str = NULL \/ gateway_str = << >>
    THEN build_route_metric(info, property_name, family, dest_str, plen,
                            NULL, metric_str, -1)
    ELSE IF nm_utils_ipaddr_valid(family, gateway_str)
    THEN build_route_metric(info, property_name, family, dest_str, plen,
                            gateway_str, metric_str, -1)
    ELSE build_route_workaround(info, property_name, family, dest_str, plen, metric_str,
                                get_one_int(info, FALSE, NULL, gateway_str, G_MAXUINT32))

\* read_field on *current = cur (NULL for a NULL pointer): the field (NULL
\* on failure), the new *current, and whether *out_err_str is set
read_field(cur, characters, delimiters) ==
    IF cur = NULL THEN [field |-> NULL, current |-> NULL, err |-> FALSE]
    ELSE IF cur = << >> THEN [field |-> NULL, current |-> cur, err |-> FALSE]
    ELSE LET n == IF \E i \in 1..Len(cur) : ~ strchr(characters, cur[i])
                  THEN (CHOOSE i \in 1..Len(cur) :
                            /\ ~ strchr(characters, cur[i])
                            /\ \A j \in 1..(i - 1) : strchr(characters, cur[j])) - 1
                  ELSE Len(cur)
         IN  IF n < Len(cur)
             THEN IF strchr(delimiters, cur[n + 1])
                  THEN [field |-> SubSeq(cur, 1, n),
                        current |-> Tail_from(cur, n + 2), err |-> FALSE]
                  ELSE [field |-> NULL, current |-> cur, err |-> TRUE]
             ELSE [field |-> cur, current |-> NULL, err |-> FALSE]

IP_ADDRESS_CHARS ==
    Str(<<"0", "1", "2", "3", "4", "5", "6", "7", "8", "9", "a", "b", "c", "d", "e", "f",
          "A", "B", "C", "D", "E", "F", ":", ".", "%">>)
DIGITS == Str(<<"0", "1", "2", "3", "4", "5", "6", "7", "8", "9">>)
DELIMITERS == Str(<<"/", ";", ",">>)

\* the defaults of iproute2
DEFAULT_PREFIX_iproute2(for_route, for_ipv6) == IF for_ipv6 THEN 128 ELSE 32

DEFAULT_PREFIX(for_route, for_ipv6) ==
    IF for_route THEN (IF for_ipv6 THEN 128 ELSE 24)
    ELSE (IF for_ipv6 THEN 64 ELSE 24)

\* the result of read_one_ip_address_or_route: the context, the item (NoItem
\* for NULL) and what was stored through out_gateway (NULL: nothing)
IpResult(info, item, gateway) == [info |-> info, item |-> item, gateway |-> gateway]

\* the end of read_one_ip_address_or_route: build_route
read_one_ip_route(r) == IpResult(r.info, r.item, NULL)

\* the end of read_one_ip_address_or_route: build_address and out_gateway
read_one_ip_address(a, gateway_str) ==
    IpResult(a.info, a.item, IF a.item = NoItem THEN NULL ELSE gateway_str)

\* read_one_ip_address_or_route from "build the appropriate data structure" on
read_one_ip_build(info, property_name, ipv6, route, address_str, plen, gateway_str, metric_str) ==
    IF route
    THEN read_one_ip_route(build_route(info, property_name,
                                       IF ipv6 THEN AF_INET6 ELSE AF_INET,
                                       address_str, plen, gateway_str, metric_str))
    ELSE read_one_ip_address(build_address(info, IF ipv6 THEN AF_INET6 ELSE AF_INET,
                                           address_str, plen, property_name),
                             gateway_str)

\* the default prefix length and its warning; w is the context after the
\* warning
read_one_ip_default_plen(w, property_name, ipv6, route, address_str, gateway_str, metric_str) ==
    IF w.error # 0 THEN IpResult(w, NoItem, NULL)
    ELSE read_one_ip_build(w, property_name, ipv6, route, address_str,
                           DEFAULT_PREFIX(route, ipv6), gateway_str, metric_str)

\* read_one_ip_address_or_route from "parse plen" on; g is what get_one_int
\* made of a prefix length field that is there
read_one_ip_plen(info, g, property_name, ipv6, route, address_str, plen_str, gateway_str, metric_str) ==
    IF plen_str = NULL
    THEN read_one_ip_default_plen(
             handle_warn(info, property_name, NM_KEYFILE_WARN_SEVERITY_WARN),
             property_name, ipv6, route, address_str, gateway_str, metric_str)
    ELSE IF ~ g.ok \/ (route /\ g.out = 0)
    THEN IF g.info.error # 0 THEN IpResult(g.info, NoItem, NULL)
         ELSE read_one_ip_default_plen(
                  handle_warn(g.info, property_name, NM_KEYFILE_WARN_SEVERITY_WARN),
                  property_name, ipv6, route, address_str, gateway_str, metric_str)
    ELSE read_one_ip_build(g.info, property_name, ipv6, route, address_str, g.out,
                           gateway_str, metric_str)

\* the fields as they are, whatever is left of the value
read_one_ip_rest_unchecked(info, property_name, ipv6, route, address_str, plen_str, gateway_str, metric_str, current) ==
    read_one_ip_plen(info,
                     get_one_int(info, TRUE, property_name, plen_str,
                                 IF ipv6 THEN 128 ELSE 32),
                     property_name, ipv6, route, address_str, plen_str,
                     gateway_str, metric_str)

\* read_one_ip_address_or_route from "if (current)" on; current is what is
\* left of the value after the fields
read_one_ip_rest(info, property_name, ipv6, route, address_str, plen_str, gateway_str, metric_str, current) ==
    IF current # NULL /\ current # << >>
    THEN \* another field follows
         IpResult(handle_warn(info, property_name, NM_KEYFILE_WARN_SEVERITY_WARN),
                  NoItem, NULL)
    ELSE Let(IF current # NULL
             THEN \* a separator at the end of the input
                  handle_warn(info, property_name, NM_KEYFILE_WARN_SEVERITY_INFO)
             ELSE info,
             LAMBDA w :
                 IF w.error # 0 THEN IpResult(w, NoItem, NULL)
                 ELSE read_one_ip_plen(
                          w,
                          get_one_int(w, TRUE, property_name, plen_str,
                                      IF ipv6 THEN 128 ELSE 32),
                          property_name, ipv6, route, address_str, plen_str,
                          gateway_str, metric_str))

\* read_one_ip_address_or_route from the metric field on; f4 is what
\* read_field made of it
read_one_ip_metric(info, property_name, ipv6, route, address_str, plen_str, gateway_str, f4) ==
    IF f4.err
    THEN IpResult(handle_warn(info, property_name, NM_KEYFILE_WARN_SEVERITY_WARN),
                  NoItem, NULL)
    ELSE read_one_ip_rest(info, property_name, ipv6, route, address_str, plen_str,
                          gateway_str, f4.field, f4.current)

\* read_one_ip_address_or_route from the gateway field on; f3 is what
\* read_field made of it
read_one_ip_gateway(info, property_name, ipv6, route, address_str, plen_str, f3) ==
    IF f3.err
    THEN IpResult(handle_warn(info, property_name, NM_KEYFILE_WARN_SEVERITY_WARN),
                  NoItem, NULL)
    ELSE read_one_ip_metric(info, property_name, ipv6, route, address_str, plen_str,
                            f3.field,
                            IF route THEN read_field(f3.current, DIGITS, DELIMITERS)
                            ELSE [field |-> NULL, current |-> f3.current, err |-> FALSE])

\* read_one_ip_address_or_route from the prefix length field on; f1 and f2
\* are what read_field made of the address and the prefix length
read_one_ip_prefix(info, property_name, ipv6, route, address_str, f2) ==
    read_one_ip_gateway(info, property_name, ipv6, route, address_str, f2.field,
                        read_field(f2.current, IP_ADDRESS_CHARS, DELIMITERS))

read_one_ip_fields(info, property_name, ipv6, route, f1) ==
    IF f1.err
    THEN IpResult(handle_warn(info, property_name, NM_KEYFILE_WARN_SEVERITY_WARN),
                  NoItem, NULL)
    ELSE read_one_ip_prefix(info, property_name, ipv6, route, f1.field,
                            read_field(f1.current, DIGITS, DELIMITERS))

read_one_ip_value(info, property_name, ipv6, route, value) ==
    IF value = NULL THEN IpResult(info, NoItem, NULL)
    ELSE read_one_ip_fields(info, property_name, ipv6, route,
                            read_field(value, IP_ADDRESS_CHARS, DELIMITERS))

read_one_ip_address_or_route(info, property_name, setting_name, key_name, ipv6, route) ==
    read_one_ip_value(info, property_name, ipv6, route,
                      nm_keyfile_plugin_kf_get_string(info.keyfile, setting_name, key_name))

\* nm_ip_route_get_variant_attribute_spec / nm_ip_route_attribute_validate:
\* the attribute strings the route accepts, here "mtu=" and one digit
route_attributes_valid(value) ==
    /\ Len(value) = 5
    /\ SubSeq(value, 1, 4) = Str(<<"m", "t", "u", "=">>)
    /\ g_ascii_isdigit(value[5])

\* fill_route_attributes: the attributes of the options key that are valid
fill_route_attributes(kf, route, setting, key) ==
    Let(nm_keyfile_plugin_kf_get_string(kf, setting, key),
        LAMBDA value : IF value = NULL \/ value = << >> THEN route
                       ELSE IF route_attributes_valid(value)
                       THEN [route EXCEPT !.attrs = value]
                       ELSE route)

\* strcmp (a, b) < 0, = 0, > 0 as -1, 0, 1
RECURSIVE strcmp(_, _)
strcmp(a, b) ==
    IF a = << >> /\ b = << >> THEN 0
    ELSE IF a = << >> THEN -1
    ELSE IF b = << >> THEN 1
    ELSE IF a[1] < b[1] THEN -1
    ELSE IF a[1] > b[1] THEN 1
    ELSE strcmp(Tail(a), Tail(b))

NoMatch == [ok |-> FALSE, key_idx |-> 0, key_type |-> 0]

\* ip_addrroute_match_key_w_name_: does key consist of base_name and an
\* index; the index is -1 for the bare base_name
ip_addrroute_match_key_w_name_(key, base_name) ==
    LET rest == Tail_from(key, Len(base_name) + 1)
        v    == ascii_str_to_int64(rest, 0, G_MAXINT32, -1)
    IN  IF ~ g_str_has_prefix(key, base_name) THEN [ok |-> FALSE, key_idx |-> 0]
        ELSE IF rest = << >> THEN [ok |-> TRUE, key_idx |-> -1]
        ELSE IF rest[1] = 48
        THEN (IF Len(rest) # 1 THEN [ok |-> FALSE, key_idx |-> 0]
              ELSE [ok |-> TRUE, key_idx |-> 0])
        ELSE IF ~ (rest[1] >= 49 /\ rest[1] <= 57) THEN [ok |-> FALSE, key_idx |-> 0]
        ELSE IF ~ all_digits(Tail(rest)) THEN [ok |-> FALSE, key_idx |-> 0]
        ELSE IF v < 0 THEN [ok |-> FALSE, key_idx |-> 0]
        ELSE [ok |-> TRUE, key_idx |-> v]

BaseName_route     == Str(<<"r", "o", "u", "t", "e">>)
BaseName_routes    == Str(<<"r", "o", "u", "t", "e", "s">>)
BaseName_address   == Str(<<"a", "d", "d", "r", "e", "s", "s">>)
BaseName_addresses == Str(<<"a", "d", "d", "r", "e", "s", "s", "e", "s">>)

ip_addrroute_match_key_plural(plural) ==
    IF plural.ok THEN [ok |-> TRUE, key_idx |-> plural.key_idx, key_type |-> 1]
    ELSE NoMatch

ip_addrroute_match_key_singular(singular, key, is_routes) ==
    IF singular.ok THEN [ok |-> TRUE, key_idx |-> singular.key_idx, key_type |-> 0]
    ELSE ip_addrroute_match_key_plural(
             ip_addrroute_match_key_w_name_(
                 key, IF is_routes THEN BaseName_routes ELSE BaseName_addresses))

ip_addrroute_match_key(key, is_routes) ==
    ip_addrroute_match_key_singular(
        ip_addrroute_match_key_w_name_(
            key, IF is_routes THEN BaseName_route ELSE BaseName_address),
        key, is_routes)

\* the comparison by the key string alone
_ip_addrroute_build_lst_data_cmp_by_key(a, b) == strcmp(a.s_key, b.s_key)

\* _ip_addrroute_build_lst_data_cmp (a, b) as -1, 0, 1
_ip_addrroute_build_lst_data_cmp(a, b) ==
    IF a.key_idx # b.key_idx THEN (IF a.key_idx < b.key_idx THEN -1 ELSE 1)
    ELSE IF a.key_type # b.key_type THEN (IF a.key_type < b.key_type THEN -1 ELSE 1)
    ELSE strcmp(a.s_key, b.s_key)

\* the build_list of ip_address_or_route_parser: the matching keys, in the
\* order of the group
build_list_entry(s_key, m) ==
    IF m.ok
    THEN << [s_key |-> s_key, key_idx |-> m.key_idx, key_type |-> m.key_type] >>
    ELSE << >>

RECURSIVE ip_build_list(_, _)
ip_build_list(keys, is_routes) ==
    IF keys = << >> THEN << >>
    ELSE build_list_entry(keys[1], ip_addrroute_match_key(keys[1], is_routes))
             \o ip_build_list(Tail(keys), is_routes)

\* the number of entries that build_list is allocated for: keys_len - i_keys
\* at the first key that matches, none when no key matches
RECURSIVE build_list_capacity(_, _)
build_list_capacity(keys, is_routes) ==
    IF keys = << >> THEN 0
    ELSE IF ip_addrroute_match_key(keys[1], is_routes).ok THEN Len(keys)
    ELSE build_list_capacity(Tail(keys), is_routes)

\* lst with x inserted before the first element that compares greater
RECURSIVE sort_insert(_, _)
sort_insert(lst, x) ==
    IF lst = << >> THEN << x >>
    ELSE IF _ip_addrroute_build_lst_data_cmp(x, lst[1]) < 0 THEN << x >> \o lst
    ELSE << lst[1] >> \o sort_insert(Tail(lst), x)

\* g_qsort_with_data with _ip_addrroute_build_lst_data_cmp
RECURSIVE g_qsort_build_list(_)
g_qsort_build_list(lst) ==
    IF lst = << >> THEN << >>
    ELSE sort_insert(g_qsort_build_list(SubSeq(lst, 1, Len(lst) - 1)), lst[Len(lst)])

options_key(s_key) == s_key \o Str(<<"_", "o", "p", "t", "i", "o", "n", "s">>)

\* the item of one iteration of the loop of ip_address_or_route_parser with,
\* for a route, its attributes
item_with_attributes(r, is_routes, setting_name, s_key) ==
    IF r.item # NoItem /\ is_routes
    THEN fill_route_attributes(r.info.keyfile, r.item, setting_name, options_key(s_key))
    ELSE r.item

\* the loop of ip_address_or_route_parser over build_list from index i on;
\* list and gateway are the locals; aborted: the function returned from
\* within the loop
RECURSIVE ip_parser_loop(_, _, _, _, _, _, _, _, _)
\* one iteration of the loop, from the result r of
\* read_one_ip_address_or_route on
RECURSIVE ip_parser_item(_, _, _, _, _, _, _, _, _, _)

\* the iteration with out_gateway passed for every address, so that the last
\* gateway field is the one kept
ip_parser_item_last_gateway(r, setting_key, setting_name, is_ipv6, is_routes, build_list, i, list, gateway, out_gateway) ==
    IF r.info.error # 0
    THEN [info |-> r.info, list |-> list, gateway |-> gateway, aborted |-> TRUE]
    ELSE ip_parser_loop(r.info, setting_key, setting_name, is_ipv6, is_routes,
                        build_list, i + 1,
                        list \o (IF r.item # NoItem THEN << r.item >> ELSE << >>),
                        IF r.gateway # NULL THEN r.gateway ELSE gateway)

ip_parser_loop(info, setting_key, setting_name, is_ipv6, is_routes, build_list, i, list, gateway) ==
    IF i > Len(build_list)
    THEN [info |-> info, list |-> list, gateway |-> gateway, aborted |-> FALSE]
    ELSE IF /\ i + 1 <= Len(build_list)
            /\ build_list[i].key_idx = build_list[i + 1].key_idx
            /\ build_list[i].key_type = build_list[i + 1].key_type
            /\ build_list[i].s_key = build_list[i + 1].s_key
    THEN ip_parser_loop(info, setting_key, setting_name, is_ipv6, is_routes,
                        build_list, i + 1, list, gateway)
    ELSE ip_parser_item(read_one_ip_address_or_route(info, setting_key, setting_name,
                                                     build_list[i].s_key, is_ipv6,
                                                     is_routes),
                        setting_key, setting_name, is_ipv6, is_routes, build_list, i,
                        list, gateway, IF gateway = NULL THEN "out" ELSE "NULL")

ip_parser_item(r, setting_key, setting_name, is_ipv6, is_routes, build_list, i, list, gateway, out_gateway) ==
    IF r.info.error # 0
    THEN [info |-> r.info, list |-> list,
          gateway |-> IF out_gateway = "out" THEN r.gateway ELSE gateway,
          aborted |-> TRUE]
    ELSE ip_parser_loop(r.info, setting_key, setting_name, is_ipv6, is_routes,
                        build_list, i + 1,
                        list \o (IF r.item # NoItem
                                 THEN << item_with_attributes(r, is_routes, setting_name,
                                                              build_list[i].s_key) >>
                                 ELSE << >>),
                        IF out_gateway = "out" THEN r.gateway ELSE gateway)

\* ip_address_or_route_parser after the loop
ip_parser_set(r, setting_key) ==
    IF r.aborted THEN r.info
    ELSE IF r.gateway # NULL
    THEN g_object_set(IF Len(r.list) >= 1 THEN g_object_set(r.info, setting_key, r.list)
                      ELSE r.info,
                      NM_SETTING_IP_CONFIG_GATEWAY, r.gateway)
    ELSE IF Len(r.list) >= 1 THEN g_object_set(r.info, setting_key, r.list)
    ELSE r.info

\* ip_address_or_route_parser from the sorted build_list on
ip_parser_sorted(info, setting_key, build_list) ==
    IF build_list = << >> THEN info
    ELSE ip_parser_set(
             ip_parser_loop(info, setting_key, info.setting.name,
                            info.setting.name = NM_SETTING_IP6_CONFIG_SETTING_NAME,
                            setting_key = NM_SETTING_IP_CONFIG_ROUTES,
                            build_list, 1, << >>, NULL),
             setting_key)

ip_address_or_route_parser(info, setting_key) ==
    ip_parser_sorted(info, setting_key,
                     g_qsort_build_list(
                         ip_build_list(
                             nm_keyfile_plugin_kf_get_keys(info.keyfile, info.setting.name),
                             setting_key = NM_SETTING_IP_CONFIG_ROUTES)))

(***************************************************************************)
(* The other property parsers.                                             *)
(***************************************************************************)
\* g_key_file_get_string_list: the value is decoded as by
\* g_key_file_parse_value_as_string, a piece ends at every list separator
\* ';' that is not escaped, \; is a separator inside a piece, and a last
\* piece without separator counts when it is not empty
RECURSIVE kf_split_list(_, _, _)
kf_split_list(value, piece, pieces) ==
    IF value = << >>
    THEN IF piece = << >> THEN pieces ELSE Append(pieces, piece)
    ELSE IF value[1] = 59
    THEN kf_split_list(Tail(value), << >>, Append(pieces, piece))
    ELSE IF value[1] # 92
    THEN kf_split_list(Tail(value), Append(piece, value[1]), pieces)
    ELSE IF Len(value) = 1 THEN kf_split_list(<< >>, piece, pieces)
    ELSE IF value[2] = 59
    THEN kf_split_list(Tail_from(value, 3), Append(piece, 59), pieces)
    ELSE kf_split_list(Tail_from(value, 3),
                       piece \o g_key_file_parse_value_as_string(SubSeq(value, 1, 2)),
                       pieces)

nm_keyfile_plugin_kf_get_string_list(kf, group, key) ==
    LET v == nm_keyfile_plugin_kf_get_value(kf, group, key)
    IN  IF v = NULL THEN << >> ELSE kf_split_list(v, << >>, << >>)

\* the encoding of one list element: as a string, with ';' escaped as well
RECURSIVE escape_separator(_)
escape_separator(value) ==
    IF value = << >> THEN << >>
    ELSE IF value[1] = 92 /\ Len(value) >= 2
    THEN << 92, value[2] >> \o escape_separator(Tail_from(value, 3))
    ELSE IF value[1] = 59 THEN << 92, 59 >> \o escape_separator(Tail(value))
    ELSE << value[1] >> \o escape_separator(Tail(value))

\* g_key_file_set_string_list: every element encoded and followed by ';'
RECURSIVE fmt_string_list(_)
fmt_string_list(list) ==
    IF list = << >> THEN << >>
    ELSE escape_separator(g_key_file_parse_string_as_value(list[1], TRUE))
             \o << 59 >> \o fmt_string_list(Tail(list))

nm_keyfile_plugin_kf_set_string_list(kf, group, key, list) ==
    nm_keyfile_plugin_kf_set_value(kf, group, key, fmt_string_list(list))

\* the loop of ip_dns_parser from element i on; kept: the valid elements so
\* far (list[0..n-1]); aborted: the function returned from within the loop
\* the loop without inet_pton: every element is kept
ip_dns_loop_unchecked(info, key, addr_family, list, i, kept) ==
    [info |-> info, kept |-> list, aborted |-> FALSE]

RECURSIVE ip_dns_loop(_, _, _, _, _, _)
ip_dns_loop(info, key, addr_family, list, i, kept) ==
    IF i > Len(list) THEN [info |-> info, kept |-> kept, aborted |-> FALSE]
    ELSE IF ~ nm_utils_ipaddr_valid(addr_family, list[i])
    THEN LET w == handle_warn(info, key, NM_KEYFILE_WARN_SEVERITY_WARN)
         IN  IF w.error # 0 THEN [info |-> w, kept |-> kept, aborted |-> TRUE]
             ELSE ip_dns_loop(w, key, addr_family, list, i + 1, kept)
    ELSE ip_dns_loop(info, key, addr_family, list, i + 1, Append(kept, list[i]))

ip_dns_parser(info, key) ==
    LET list == nm_keyfile_plugin_kf_get_string_list(info.keyfile, info.setting.name, key)
        addr_family == IF info.setting.name = NM_SETTING_IP4_CONFIG_SETTING_NAME
                       THEN AF_INET ELSE AF_INET6
        r    == ip_dns_loop(info, key, addr_family, list, 1, << >>)
    IN  IF Len(list) = 0 THEN info
        ELSE IF r.aborted THEN r.info
        ELSE g_object_set(r.info, key, r.kept)

NM_SETTING_IP6_CONFIG_ADDR_GEN_MODE_EUI64 == "eui64"
NM_SETTING_IP6_CONFIG_ADDR_GEN_MODE_STABLE_PRIVACY == "stable-privacy"

\* nm_utils_enum_from_str for the addr-gen-mode type; "invalid" when the
\* string names no value
addr_gen_mode_from_str(s) ==
    IF s = Str(<<"e", "u", "i", "6", "4">>)
    THEN NM_SETTING_IP6_CONFIG_ADDR_GEN_MODE_EUI64
    ELSE IF s = Str(<<"s", "t", "a", "b", "l", "e", "-", "p", "r", "i", "v", "a", "c", "y">>)
    THEN NM_SETTING_IP6_CONFIG_ADDR_GEN_MODE_STABLE_PRIVACY
    ELSE "invalid"

\* nm_utils_enum_to_str for the addr-gen-mode type
addr_gen_mode_to_str(mode) ==
    IF mode = NM_SETTING_IP6_CONFIG_ADDR_GEN_MODE_EUI64
    THEN Str(<<"e", "u", "i", "6", "4">>)
    ELSE Str(<<"s", "t", "a", "b", "l", "e", "-", "p", "r", "i", "v", "a", "c", "y">>)

ip6_addr_gen_mode_parser(info, key) ==
    LET s == nm_keyfile_plugin_kf_get_string(info.keyfile, info.setting.name, key)
    IN  IF s # NULL
        THEN IF addr_gen_mode_from_str(s) = "invalid"
             THEN handle_warn(info, key, NM_KEYFILE_WARN_SEVERITY_WARN)
             ELSE g_object_set(info, key, addr_gen_mode_from_str(s))
        ELSE g_object_set(info, key, NM_SETTING_IP6_CONFIG_ADDR_GEN_MODE_EUI64)

\* unescape_semicolons that leaves the backslashes in
unescape_semicolons_kept(str) == str

\* unescape_semicolons: a backslash before a semicolon is dropped
RECURSIVE unescape_semicolons(_)
unescape_semicolons(str) ==
    IF str = << >> THEN << >>
    ELSE IF str[1] = 92 /\ Len(str) >= 2 /\ str[2] = 59
    THEN << 59 >> \o unescape_semicolons(Tail_from(str, 3))
    ELSE << str[1] >> \o unescape_semicolons(Tail(str))

\* the loop that finds no list of integers
get_bytes_int_list_none(s, i, acc) == << >>

\* the integer-list loop of get_bytes on s from position i (1-based) with
\* the bytes bin_data[0..d-1] = acc; << >> stands for the outcome d = 0
RECURSIVE get_bytes_int_list(_, _, _)
get_bytes_int_list(s, i, acc) ==
    LET i1 == i + span_space(Tail_from(s, i))
        nd == span_digits(Tail_from(s, i1))
        k  == IF nd > 3 THEN 3 ELSE nd
        n  == digits_value(SubSeq(s, i1, i1 + k - 1), 999)
        i2 == i1 + k
        i3 == i2 + span_space(Tail_from(s, i2))
    IN  IF i1 > Len(s) THEN acc
        ELSE IF nd = 0 THEN << >>
        ELSE IF n > 255 THEN << >>
        ELSE IF i3 > Len(s) \/ s[i3] # 59 THEN << >>
        ELSE get_bytes_int_list(s, i3 + 1, Append(acc, n))

\* the number of assignments bin_data[d++] = n of the integer-list loop on s
\* from position i (1-based) after d of them: the greatest value of d
RECURSIVE get_bytes_int_list_stored(_, _, _)
get_bytes_int_list_stored(s, i, d) ==
    LET i1 == i + span_space(Tail_from(s, i))
        nd == span_digits(Tail_from(s, i1))
        k  == IF nd > 3 THEN 3 ELSE nd
        n  == digits_value(SubSeq(s, i1, i1 + k - 1), 999)
        i2 == i1 + k
        i3 == i2 + span_space(Tail_from(s, i2))
    IN  IF i1 > Len(s) THEN d
        ELSE IF nd = 0 THEN d
        ELSE IF n > 255 THEN d
        ELSE IF i3 > Len(s) \/ s[i3] # 59 THEN d + 1
        ELSE get_bytes_int_list_stored(s, i3 + 1, d + 1)

\* a scratch buffer of half the length of the string
BIN_DATA_LEN_half(length) == length \div 2

\* the size of the scratch buffer bin_data for a string of the length
BIN_DATA_LEN(length) == length \div 2 + 3

\* get_bytes: NULL when the key is missing, else the bytes of the blob
get_bytes(info, setting_name, key, zero_terminate, unescape_semicolon) ==
    LET tmp_string == nm_keyfile_plugin_kf_get_string(info.keyfile, setting_name, key)
        may_be_int_list ==
            \A i \in 1..Len(tmp_string) :
                g_ascii_isspace(tmp_string[i]) \/ g_ascii_isdigit(tmp_string[i])
                    \/ tmp_string[i] = 59
        bin_data == get_bytes_int_list(tmp_string, 1, << >>)
        str1 == IF unescape_semicolon THEN unescape_semicolons(tmp_string) ELSE tmp_string
        str2 == IF zero_terminate THEN Append(str1, 0) ELSE str1
    IN  IF tmp_string = NULL THEN NULL
        ELSE IF tmp_string = << >> THEN << >>
        ELSE IF may_be_int_list /\ Len(bin_data) > 0 THEN bin_data
        ELSE IF Len(str2) = 0 THEN NULL
        ELSE str2

ssid_parser(info, key) ==
    LET bytes == get_bytes(info, info.setting.name, key, FALSE, TRUE)
    IN  IF bytes # NULL THEN g_object_set(info, key, bytes)
        ELSE IF info.error = 0
        THEN handle_warn(info, key, NM_KEYFILE_WARN_SEVERITY_WARN)
        ELSE info

\* nm_utils_is_json_object: a text in braces
nm_utils_is_json_object(conf) ==
    Len(conf) >= 2 /\ conf[1] = 123 /\ conf[Len(conf)] = 125

team_config_parser(info, key) ==
    LET conf == nm_keyfile_plugin_kf_get_string(info.keyfile, info.setting.name, key)
    IN  IF conf # NULL /\ conf # << >> /\ ~ nm_utils_is_json_object(conf)
        THEN g_object_set(handle_warn(info, key, NM_KEYFILE_WARN_SEVERITY_WARN),
                          key, NULL)
        ELSE g_object_set(info, key, conf)

Prefix_qdisc   == Str(<<"q", "d", "i", "s", "c", ".">>)
Prefix_tfilter == Str(<<"t", "f", "i", "l", "t", "e", "r", ".">>)

\* nm_utils_tc_qdisc_from_str / nm_utils_tc_tfilter_from_str on the string
\* made of the parent and the rest: the object, or NULL (NoTc) when the rest
\* does not start with a lower-case letter or the parent is empty
NoTc == [parent |-> NULL, rest |-> NULL]

nm_utils_tc_from_str(parent, rest) ==
    IF /\ parent # << >>
       /\ rest # NULL
       /\ rest # << >>
       /\ rest[1] \in 97..122
    THEN [parent |-> parent, rest |-> rest]
    ELSE NoTc

\* the loop of qdisc_parser / tfilter_parser over keys from index i on: a
\* warning for every invalid entry, whatever the handler answered before
RECURSIVE tc_parser_loop(_, _, _, _, _)
tc_parser_loop(info, prefix, keys, i, objs) ==
    IF i > Len(keys) THEN [info |-> info, objs |-> objs]
    ELSE IF ~ g_str_has_prefix(keys[i], prefix)
    THEN tc_parser_loop(info, prefix, keys, i + 1, objs)
    ELSE LET parent == Tail_from(keys[i], Len(prefix) + 1)
             rest   == nm_keyfile_plugin_kf_get_string(info.keyfile, info.setting.name,
                                                       keys[i])
             obj    == nm_utils_tc_from_str(parent, rest)
         IN  IF obj = NoTc
             THEN tc_parser_loop(handle_warn(info, keys[i], NM_KEYFILE_WARN_SEVERITY_WARN),
                                 prefix, keys, i + 1, objs)
             ELSE tc_parser_loop(info, prefix, keys, i + 1, Append(objs, obj))

\* the array of qdiscs / tfilters is allocated before the keys are looked
\* at and released by the g_ptr_array_unref at the end of the function
tc_parser(info, key, prefix) ==
    LET keys == nm_keyfile_plugin_kf_get_keys(info.keyfile, info.setting.name)
        r    == tc_parser_loop(allocated(info, key), prefix, keys, 1, << >>)
    IN  IF Len(keys) = 0 THEN allocated(info, key)
        ELSE IF Len(r.objs) >= 1 THEN released(g_object_set(r.info, key, r.objs), key)
        ELSE released(r.info, key)

qdisc_parser(info, key) == tc_parser(info, key, Prefix_qdisc)

tfilter_parser(info, key) == tc_parser(info, key, Prefix_tfilter)

\* setting_alias_parser: the value with an alias replaced by the setting name
(***************************************************************************)
(* Certificates and keys of the 802-1x setting: a blob of bytes that is a  *)
(* path ("file://" and the path, NUL-terminated), a PKCS#11 URI or raw     *)
(* data.                                                                   *)
(***************************************************************************)
NM_KEYFILE_CERT_SCHEME_PREFIX_PATH == Str(<<"f", "i", "l", "e", ":", "/", "/">>)
NM_KEYFILE_CERT_SCHEME_PREFIX_PKCS11 == Str(<<"p", "k", "c", "s", "1", "1", ":">>)
NM_KEYFILE_CERT_SCHEME_PREFIX_BLOB ==
    Str(<<"d", "a", "t", "a", ":", ";", "b", "a", "s", "e", "6", "4", ",">>)

NM_SETTING_802_1X_CK_SCHEME_UNKNOWN == "NM_SETTING_802_1X_CK_SCHEME_UNKNOWN"
NM_SETTING_802_1X_CK_SCHEME_BLOB == "NM_SETTING_802_1X_CK_SCHEME_BLOB"
NM_SETTING_802_1X_CK_SCHEME_PATH == "NM_SETTING_802_1X_CK_SCHEME_PATH"
NM_SETTING_802_1X_CK_SCHEME_PKCS11 == "NM_SETTING_802_1X_CK_SCHEME_PKCS11"

\* the bytes of data up to the first NUL: data read as a C string
RECURSIVE c_str(_)
c_str(data) ==
    IF data = << >> \/ data[1] = 0 THEN << >>
    ELSE << data[1] >> \o c_str(Tail(data))

\* the tests of nm_setting_802_1x_check_cert_scheme on data that has the
\* prefix of a URI scheme
check_cert_scheme_uri(data, prefix, scheme) ==
    IF Len(data) - Len(prefix) = 0 THEN NM_SETTING_802_1X_CK_SCHEME_UNKNOWN
    ELSE IF data[Len(data)] # 0 THEN NM_SETTING_802_1X_CK_SCHEME_UNKNOWN
    ELSE IF Len(data) - Len(prefix) <= 1 THEN NM_SETTING_802_1X_CK_SCHEME_UNKNOWN
    ELSE IF ~ g_utf8_validate(SubSeq(data, Len(prefix) + 1, Len(data) - 1))
    THEN NM_SETTING_802_1X_CK_SCHEME_UNKNOWN
    ELSE scheme

\* nm_setting_802_1x_check_cert_scheme (data, Len(data), NULL)
nm_setting_802_1x_check_cert_scheme(data) ==
    IF data = NULL \/ data = << >> THEN NM_SETTING_802_1X_CK_SCHEME_UNKNOWN
    ELSE IF g_str_has_prefix(data, NM_KEYFILE_CERT_SCHEME_PREFIX_PKCS11)
    THEN check_cert_scheme_uri(data, NM_KEYFILE_CERT_SCHEME_PREFIX_PKCS11,
                               NM_SETTING_802_1X_CK_SCHEME_PKCS11)
    ELSE IF g_str_has_prefix(data, NM_KEYFILE_CERT_SCHEME_PREFIX_PATH)
    THEN check_cert_scheme_uri(data, NM_KEYFILE_CERT_SCHEME_PREFIX_PATH,
                               NM_SETTING_802_1X_CK_SCHEME_PATH)
    ELSE NM_SETTING_802_1X_CK_SCHEME_BLOB

\* strrchr (path, '/'): the position of the last slash, 0 when there is none
last_slash(path) ==
    IF strchr(path, 47)
    THEN CHOOSE i \in 1..Len(path) :
             path[i] = 47 /\ \A j \in (i + 1)..Len(path) : path[j] # 47
    ELSE 0

\* s without the slashes at its end
RECURSIVE strip_trailing_slashes(_)
strip_trailing_slashes(s) ==
    IF s # << >> /\ s[Len(s)] = 47
    THEN strip_trailing_slashes(SubSeq(s, 1, Len(s) - 1))
    ELSE s

\* g_build_path ("/", base_dir, base, NULL) for a base without a slash
g_build_path(base_dir, base) ==
    IF base = << >> THEN base_dir
    ELSE IF strip_trailing_slashes(base_dir) = << >> /\ base_dir # << >>
    THEN << 47 >> \o base
    ELSE strip_trailing_slashes(base_dir) \o << 47 >> \o base

\* g_path_get_dirname
g_path_get_dirname_at(file_name, k) ==
    IF k = 0 THEN << 46 >>
    ELSE IF strip_trailing_slashes(SubSeq(file_name, 1, k)) = << >> THEN << 47 >>
    ELSE strip_trailing_slashes(SubSeq(file_name, 1, k))

g_path_get_dirname(file_name) == g_path_get_dirname_at(file_name, last_slash(file_name))

\* g_get_current_dir () of most processes
CurrentDir == Str(<<"/", "w">>)

\* the files that exist: g_file_test (path, G_FILE_TEST_EXISTS)
ExistingFiles ==
    { Str(<<"/", "e", "/", "c", ".", "p", "e", "m">>), Str(<<"/", "e", "/", "n">>) }

g_file_test_exists(path) == path \in ExistingFiles

\* the path made absolute with the directory base_dir and all of a
\* relative path
get_cert_path_joined(base_dir, path) ==
    IF path # << >> /\ path[1] = 47 THEN path
    ELSE strip_trailing_slashes(base_dir) \o << 47 >> \o path

\* get_cert_path: the path of cert_path, which is made absolute with the
\* directory base_dir and the last component of a relative path
get_cert_path_of(base_dir, path) ==
    IF path # << >> /\ path[1] = 47 THEN path
    ELSE g_build_path(base_dir, Tail_from(path, last_slash(path) + 1))

get_cert_path(base_dir, cert_path) == get_cert_path_of(base_dir, c_str(cert_path))

certext ==
    << Str(<<".", "p", "e", "m">>), Str(<<".", "c", "e", "r", "t">>),
       Str(<<".", "c", "r", "t">>), Str(<<".", "c", "e", "r">>),
       Str(<<".", "p", "1", "2">>), Str(<<".", "d", "e", "r">>),
       Str(<<".", "k", "e", "y">>) >>

g_str_has_suffix(s, suffix) ==
    /\ Len(s) >= Len(suffix)
    /\ SubSeq(s, Len(s) - Len(suffix) + 1, Len(s)) = suffix

has_cert_ext(path) == \E i \in 1..Len(certext) : g_str_has_suffix(path, certext[i])

MaxUnqualifiedPathLen == 500

\* what nm_keyfile_detect_unqualified_path_scheme returns (path, NULL when
\* the data is no path) and stores in out_exists
NoPathScheme == [path |-> NULL, exists |-> FALSE]

\* nm_keyfile_detect_unqualified_path_scheme from get_cert_path on
detect_unqualified_path_scheme_of(data, path, consider_exists, want_exists) ==
    IF ~ strchr(data, 47) /\ ~ has_cert_ext(path)
           /\ (~ consider_exists \/ ~ g_file_test_exists(path))
    THEN NoPathScheme
    ELSE IF nm_setting_802_1x_check_cert_scheme(
                NM_KEYFILE_CERT_SCHEME_PREFIX_PATH \o path \o << 0 >>)
                # NM_SETTING_802_1X_CK_SCHEME_PATH
    THEN NoPathScheme
    ELSE [path   |-> NM_KEYFILE_CERT_SCHEME_PREFIX_PATH \o path,
          exists |-> IF ~ strchr(data, 47) /\ ~ has_cert_ext(path) THEN TRUE
                     ELSE want_exists /\ g_file_test_exists(path)]

\* nm_keyfile_detect_unqualified_path_scheme (base_dir, data, Len(data),
\* consider_exists, out_exists); want_exists is out_exists != NULL
nm_keyfile_detect_unqualified_path_scheme(base_dir, data, consider_exists, want_exists) ==
    IF base_dir = << >> \/ base_dir[1] # 47 THEN NoPathScheme
    ELSE IF data = NULL THEN NoPathScheme
    ELSE IF Len(data) > MaxUnqualifiedPathLen \/ Len(data) < 1 THEN NoPathScheme
    ELSE IF ~ g_utf8_validate(IF data[Len(data)] = 0
                              THEN SubSeq(data, 1, Len(data) - 1) ELSE data)
            \/ (data[Len(data)] = 0 /\ Len(data) = 1)
    THEN NoPathScheme
    ELSE detect_unqualified_path_scheme_of(data, get_cert_path(base_dir, data),
                                           consider_exists, want_exists)

HAS_SCHEME_PREFIX(bin, scheme) ==
    /\ Len(bin) > Len(scheme) + 1
    /\ bin[Len(bin)] = 0
    /\ SubSeq(bin, 1, Len(scheme)) = scheme

\* the character of the base64 alphabet for the six bits i
base64_char(i) ==
    IF i < 26 THEN 65 + i
    ELSE IF i < 52 THEN 97 + (i - 26)
    ELSE IF i < 62 THEN 48 + (i - 52)
    ELSE IF i = 62 THEN 43
    ELSE 47

is_base64_char(c) == c \in (97..122) \cup (65..90) \cup (48..57) \cup {43, 47}

base64_index(c) == CHOOSE i \in 0..63 : base64_char(i) = c

RECURSIVE g_base64_encode(_)
g_base64_encode(data) ==
    IF data = << >> THEN << >>
    ELSE IF Len(data) = 1
    THEN << base64_char(data[1] \div 4), base64_char((data[1] % 4) * 16), 61, 61 >>
    ELSE IF Len(data) = 2
    THEN << base64_char(data[1] \div 4),
            base64_char((data[1] % 4) * 16 + data[2] \div 16),
            base64_char((data[2] % 16) * 4), 61 >>
    ELSE << base64_char(data[1] \div 4),
            base64_char((data[1] % 4) * 16 + data[2] \div 16),
            base64_char((data[2] % 16) * 4 + data[3] \div 64),
            base64_char(data[3] % 64) >> \o g_base64_encode(Tail_from(data, 4))

\* g_base64_decode of a text that the test of cert_parser found valid
RECURSIVE g_base64_decode(_)
g_base64_decode(text) ==
    IF Len(text) < 4 THEN << >>
    ELSE IF text[3] = 61
    THEN << base64_index(text[1]) * 4 + base64_index(text[2]) \div 16 >>
    ELSE IF text[4] = 61
    THEN << base64_index(text[1]) * 4 + base64_index(text[2]) \div 16,
            (base64_index(text[2]) % 16) * 16 + base64_index(text[3]) \div 4 >>
    ELSE << base64_index(text[1]) * 4 + base64_index(text[2]) \div 16,
            (base64_index(text[2]) % 16) * 16 + base64_index(text[3]) \div 4,
            (base64_index(text[3]) % 4) * 64 + base64_index(text[4]) >>
         \o g_base64_decode(Tail_from(text, 5))

\* the test of cert_parser for strict base64
valid_base64(cdata) ==
    /\ Len(cdata) % 4 = 0
    /\ \A i \in 1..Len(cdata) :
           (~ is_base64_char(cdata[i]) /\ \A j \in 1..(i - 1) : is_base64_char(cdata[j]))
           => /\ cdata[i] = 61
              /\ i >= Len(cdata) - 1
              /\ \A j \in i..Len(cdata) : cdata[j] = 61

\* cert_parser: the warning for a file that does not exist
cert_parser_missing_file(info, key, path) ==
    IF ~ g_file_test_exists(path)
    THEN handle_warn(info, key, NM_KEYFILE_WARN_SEVERITY_INFO_MISSING_FILE)
    ELSE info

\* cert_parser for a value with the prefix of the path scheme
cert_parser_path(info, key, bytes, path2) ==
    IF nm_setting_802_1x_check_cert_scheme(bytes) # NM_SETTING_802_1X_CK_SCHEME_PATH
    THEN handle_warn(info, key, NM_KEYFILE_WARN_SEVERITY_WARN)
    ELSE cert_parser_missing_file(
             g_object_set(info, key, bytes), key,
             IF path2 = << >> \/ path2[1] # 47
             THEN get_cert_path(info.base_dir, path2)
             ELSE path2)

\* cert_parser for a value with the prefix of the PKCS#11 scheme
cert_parser_pkcs11(info, key, bytes) ==
    IF nm_setting_802_1x_check_cert_scheme(bytes) # NM_SETTING_802_1X_CK_SCHEME_PKCS11
    THEN handle_warn(info, key, NM_KEYFILE_WARN_SEVERITY_WARN)
    ELSE g_object_set(info, key, bytes)

\* cert_parser for a value with the prefix of the blob scheme, once decoded
cert_parser_blob_decoded(info, key, bin_decoded) ==
    IF bin_decoded = << >>
    THEN handle_warn(info, key, NM_KEYFILE_WARN_SEVERITY_WARN)
    ELSE IF nm_setting_802_1x_check_cert_scheme(bin_decoded)
                # NM_SETTING_802_1X_CK_SCHEME_BLOB
    THEN handle_warn(info, key, NM_KEYFILE_WARN_SEVERITY_WARN)
    ELSE g_object_set(info, key, bin_decoded)

cert_parser_blob(info, key, cdata) ==
    cert_parser_blob_decoded(info, key,
                             IF valid_base64(cdata) THEN g_base64_decode(cdata)
                             ELSE << >>)

\* cert_parser for a value without a prefix; d is what
\* nm_keyfile_detect_unqualified_path_scheme made of it
cert_parser_plain(info, key, bytes, d) ==
    IF d.path # NULL
    THEN IF ~ d.exists
         THEN handle_warn(g_object_set(info, key, d.path \o << 0 >>), key,
                          NM_KEYFILE_WARN_SEVERITY_INFO_MISSING_FILE)
         ELSE g_object_set(info, key, d.path \o << 0 >>)
    ELSE IF nm_setting_802_1x_check_cert_scheme(bytes) # NM_SETTING_802_1X_CK_SCHEME_BLOB
    THEN handle_warn(info, key, NM_KEYFILE_WARN_SEVERITY_WARN)
    ELSE g_object_set(info, key, bytes)

\* cert_parser once get_bytes has given bytes
cert_parser_bytes(info, key, bytes) ==
    IF bytes = NULL \/ bytes = << >>
    THEN IF info.error = 0
         THEN handle_warn(info, key, NM_KEYFILE_WARN_SEVERITY_WARN)
         ELSE info
    ELSE IF HAS_SCHEME_PREFIX(bytes, NM_KEYFILE_CERT_SCHEME_PREFIX_PATH)
    THEN cert_parser_path(info, key, bytes,
                          c_str(Tail_from(bytes,
                                          Len(NM_KEYFILE_CERT_SCHEME_PREFIX_PATH) + 1)))
    ELSE IF HAS_SCHEME_PREFIX(bytes, NM_KEYFILE_CERT_SCHEME_PREFIX_PKCS11)
    THEN cert_parser_pkcs11(info, key, bytes)
    ELSE IF HAS_SCHEME_PREFIX(bytes, NM_KEYFILE_CERT_SCHEME_PREFIX_BLOB)
    THEN cert_parser_blob(info, key,
                          SubSeq(bytes, Len(NM_KEYFILE_CERT_SCHEME_PREFIX_BLOB) + 1,
                                 Len(bytes) - 1))
    ELSE cert_parser_plain(info, key, bytes,
                           nm_keyfile_detect_unqualified_path_scheme(
                               info.base_dir, bytes, TRUE, TRUE))

cert_parser(info, key) ==
    cert_parser_bytes(info, key, get_bytes(info, info.setting.name, key, TRUE, FALSE))

setting_alias_parser(info, key) ==
    LET str == nm_keyfile_plugin_kf_get_string(info.keyfile, info.setting.name, key)
        key_setting_name == nm_keyfile_plugin_get_setting_name_for_alias(str)
    IN  IF str # NULL
        THEN g_object_set(info, key, IF key_setting_name # NULL THEN key_setting_name
                                     ELSE str)
        ELSE info

(***************************************************************************)
(* The settings catalog: for every setting type its properties in the      *)
(* order nm_setting_enumerate_values visits them, each with its GType, its *)
(* default value and its flags.                                            *)
(***************************************************************************)
Prop(name, type, default, flags) ==
    [name |-> name, type |-> type, default |-> default, flags |-> flags]

G_PARAM_WRITABLE == "G_PARAM_WRITABLE"
NM_SETTING_PARAM_SECRET == "NM_SETTING_PARAM_SECRET"

NM_SETTING_SECRET_FLAG_NONE == 0
NM_SETTING_SECRET_FLAG_AGENT_OWNED == 1
NM_SETTING_SECRET_FLAG_NOT_SAVED == 2
NM_VLAN_FLAG_REORDER_HEADERS == 1

NameProp == Prop(NM_SETTING_NAME, "G_TYPE_STRING", NULL, {})

\* the property bits of the serial setting and its default
NM_SETTING_SERIAL_BITS == Str(<<"b", "i", "t", "s">>)
NM_SETTING_SERIAL_BITS_DEFAULT == 8

\* the values of the enumeration NMSettingSerialParity
NM_SETTING_SERIAL_PARITY_NONE == 0
NM_SETTING_SERIAL_PARITY_EVEN == 1
NM_SETTING_SERIAL_PARITY_ODD == 2

SettingProperties(setting_name) ==
    IF setting_name = NM_SETTING_CONNECTION_SETTING_NAME THEN
        << Prop(NM_SETTING_CONNECTION_ID, "G_TYPE_STRING", NULL, {G_PARAM_WRITABLE}),
           Prop(NM_SETTING_CONNECTION_INTERFACE_NAME, "G_TYPE_STRING", NULL,
                {G_PARAM_WRITABLE}),
           NameProp,
           Prop(NM_SETTING_CONNECTION_READ_ONLY, "G_TYPE_BOOLEAN", FALSE, {G_PARAM_WRITABLE}),
           Prop(NM_SETTING_CONNECTION_TYPE, "G_TYPE_STRING", NULL, {G_PARAM_WRITABLE}),
           Prop(NM_SETTING_CONNECTION_UUID, "G_TYPE_STRING", NULL, {G_PARAM_WRITABLE}) >>
    ELSE IF setting_name = NM_SETTING_IP4_CONFIG_SETTING_NAME THEN
        << Prop(NM_SETTING_IP_CONFIG_ADDRESSES, "G_TYPE_PTR_ARRAY", << >>, {G_PARAM_WRITABLE}),
           Prop(NM_SETTING_IP_CONFIG_DNS, "G_TYPE_STRV", << >>, {G_PARAM_WRITABLE}),
           Prop(NM_SETTING_IP_CONFIG_GATEWAY, "G_TYPE_STRING", NULL, {G_PARAM_WRITABLE}),
           Prop(NM_SETTING_IP_CONFIG_METHOD, "G_TYPE_STRING", NULL, {G_PARAM_WRITABLE}),
           NameProp,
           Prop(NM_SETTING_IP_CONFIG_ROUTES, "G_TYPE_PTR_ARRAY", << >>, {G_PARAM_WRITABLE}) >>
    ELSE IF setting_name = NM_SETTING_IP6_CONFIG_SETTING_NAME THEN
        << Prop(NM_SETTING_IP6_CONFIG_ADDR_GEN_MODE, "G_TYPE_INT",
                NM_SETTING_IP6_CONFIG_ADDR_GEN_MODE_STABLE_PRIVACY, {G_PARAM_WRITABLE}),
           Prop(NM_SETTING_IP_CONFIG_ADDRESSES, "G_TYPE_PTR_ARRAY", << >>, {G_PARAM_WRITABLE}),
           Prop(NM_SETTING_IP_CONFIG_DNS, "G_TYPE_STRV", << >>, {G_PARAM_WRITABLE}),
           Prop(NM_SETTING_IP_CONFIG_GATEWAY, "G_TYPE_STRING", NULL, {G_PARAM_WRITABLE}),
           Prop(NM_SETTING_IP_CONFIG_METHOD, "G_TYPE_STRING", NULL, {G_PARAM_WRITABLE}),
           NameProp,
           Prop(NM_SETTING_IP_CONFIG_ROUTES, "G_TYPE_PTR_ARRAY", << >>, {G_PARAM_WRITABLE}) >>
    ELSE IF setting_name = NM_SETTING_WIRELESS_SETTING_NAME THEN
        << Prop(NM_SETTING_WIRELESS_MTU, "G_TYPE_UINT", 0, {G_PARAM_WRITABLE}),
           NameProp,
           Prop(NM_SETTING_WIRELESS_SSID, "G_TYPE_BYTES", NULL, {G_PARAM_WRITABLE}) >>
    ELSE IF setting_name = NM_SETTING_WIRELESS_SECURITY_SETTING_NAME THEN
        << Prop(NM_SETTING_WIRELESS_SECURITY_KEY_MGMT, "G_TYPE_STRING", NULL, {G_PARAM_WRITABLE}),
           NameProp,
           Prop(NM_SETTING_WIRELESS_SECURITY_PSK, "G_TYPE_STRING", NULL,
                {G_PARAM_WRITABLE, NM_SETTING_PARAM_SECRET}),
           Prop(NM_SETTING_WIRELESS_SECURITY_PSK_FLAGS, "G_TYPE_FLAGS",
                NM_SETTING_SECRET_FLAG_NONE, {G_PARAM_WRITABLE}) >>
    ELSE IF setting_name = NM_SETTING_VLAN_SETTING_NAME THEN
        << Prop(NM_SETTING_VLAN_FLAGS, "G_TYPE_FLAGS", NM_VLAN_FLAG_REORDER_HEADERS,
                {G_PARAM_WRITABLE}),
           Prop(NM_SETTING_VLAN_ID, "G_TYPE_UINT", 0, {G_PARAM_WRITABLE}),
           NameProp >>
    ELSE IF setting_name = NM_SETTING_TC_CONFIG_SETTING_NAME THEN
        << NameProp,
           Prop(NM_SETTING_TC_CONFIG_QDISCS, "G_TYPE_PTR_ARRAY", << >>, {G_PARAM_WRITABLE}),
           Prop(NM_SETTING_TC_CONFIG_TFILTERS, "G_TYPE_PTR_ARRAY", << >>, {G_PARAM_WRITABLE}) >>
    ELSE IF setting_name = NM_SETTING_TEAM_SETTING_NAME THEN
        << Prop(NM_SETTING_TEAM_CONFIG, "G_TYPE_STRING", NULL, {G_PARAM_WRITABLE}),
           NameProp >>
    ELSE IF setting_name = NM_SETTING_802_1X_SETTING_NAME THEN
        << Prop(NM_SETTING_802_1X_CA_CERT, "G_TYPE_BYTES", NULL, {G_PARAM_WRITABLE}),
           Prop(NM_SETTING_802_1X_CLIENT_CERT, "G_TYPE_BYTES", NULL, {G_PARAM_WRITABLE}),
           NameProp >>
    ELSE IF setting_name = NM_SETTING_VPN_SETTING_NAME THEN
        << Prop(NM_SETTING_VPN_DATA, "G_TYPE_HASH_TABLE", {}, {G_PARAM_WRITABLE}),
           NameProp,
           Prop(NM_SETTING_VPN_PERSISTENT, "G_TYPE_BOOLEAN", FALSE, {G_PARAM_WRITABLE}),
           Prop(NM_SETTING_VPN_SECRETS, "G_TYPE_HASH_TABLE", {},
                {G_PARAM_WRITABLE, NM_SETTING_PARAM_SECRET}),
           Prop(NM_SETTING_VPN_SERVICE_TYPE, "G_TYPE_STRING", NULL, {G_PARAM_WRITABLE}),
           Prop(NM_SETTING_VPN_TIMEOUT, "G_TYPE_UINT", 0, {G_PARAM_WRITABLE}),
           Prop(NM_SETTING_VPN_USER_NAME, "G_TYPE_STRING", NULL, {G_PARAM_WRITABLE}) >>
    ELSE IF setting_name = NM_SETTING_SERIAL_SETTING_NAME THEN
        << Prop(NM_SETTING_SERIAL_BITS, "G_TYPE_UINT", NM_SETTING_SERIAL_BITS_DEFAULT,
                {G_PARAM_WRITABLE}),
           NameProp,
           Prop(NM_SETTING_SERIAL_PARITY, "G_TYPE_ENUM", NM_SETTING_SERIAL_PARITY_NONE,
                {G_PARAM_WRITABLE}) >>
    ELSE IF setting_name = NM_SETTING_BOND_SETTING_NAME THEN
        << NameProp,
           Prop(NM_SETTING_BOND_OPTIONS, "G_TYPE_HASH_TABLE", {}, {G_PARAM_WRITABLE}) >>
    ELSE << >>

\* nm_setting_lookup_type (name) != 0
nm_setting_lookup_type(name) == SettingProperties(name) # << >>

\* g_object_new (type, NULL): every property at its default
property_default(ps, k) == ps[CHOOSE i \in 1..Len(ps) : ps[i].name = k].default

object_with_defaults(setting_name, ps) ==
    [name  |-> setting_name,
     props |-> [k \in {ps[i].name : i \in 1..Len(ps)} |-> property_default(ps, k)]]

g_object_new(setting_name) ==
    object_with_defaults(setting_name, SettingProperties(setting_name))

(***************************************************************************)
(* The table parse_infos of the properties that are not handled in the     *)
(* generic way, in the order of the source.  A parser or writer is named   *)
(* by a tag; "NULL" is no function.                                        *)
(***************************************************************************)
PARSE_INFO_PROPERTY(property_name, parser, writer, parser_skip, parser_no_check_key, writer_skip, writer_persist_default) ==
    [property_name          |-> property_name,
     parser                 |-> parser,
     writer                 |-> writer,
     parser_skip            |-> parser_skip,
     parser_no_check_key    |-> parser_no_check_key,
     writer_skip            |-> writer_skip,
     writer_persist_default |-> writer_persist_default]

PARSE_INFO_SETTING(setting_name, properties) ==
    [setting_name |-> setting_name, properties |-> properties]

NoParseInfo ==
    PARSE_INFO_PROPERTY(NULL, "NULL", "NULL", FALSE, FALSE, FALSE, FALSE)

parse_infos_ip_common ==
    << PARSE_INFO_PROPERTY(NM_SETTING_IP_CONFIG_ADDRESSES, "ip_address_or_route_parser",
                           "addr_writer", FALSE, TRUE, FALSE, FALSE),
       PARSE_INFO_PROPERTY(NM_SETTING_IP_CONFIG_DNS, "ip_dns_parser", "dns_writer",
                           FALSE, TRUE, FALSE, FALSE),
       PARSE_INFO_PROPERTY(NM_SETTING_IP_CONFIG_GATEWAY, "NULL", "NULL",
                           FALSE, FALSE, TRUE, FALSE),
       PARSE_INFO_PROPERTY(NM_SETTING_IP_CONFIG_ROUTES, "ip_address_or_route_parser",
                           "route_writer", FALSE, TRUE, FALSE, FALSE) >>

parse_infos ==
    << PARSE_INFO_SETTING(NM_SETTING_WIRELESS_SETTING_NAME,
         << PARSE_INFO_PROPERTY(NM_SETTING_WIRELESS_BSSID, "mac_address_parser_ETHER", "NULL",
                                FALSE, FALSE, FALSE, FALSE),
            PARSE_INFO_PROPERTY(NM_SETTING_WIRELESS_CLONED_MAC_ADDRESS, "mac_address_parser_ETHER_cloned", "NULL",
                                FALSE, FALSE, FALSE, FALSE),
            PARSE_INFO_PROPERTY(NM_SETTING_WIRELESS_MAC_ADDRESS, "mac_address_parser_ETHER", "NULL",
                                FALSE, FALSE, FALSE, FALSE),
            PARSE_INFO_PROPERTY(NM_SETTING_WIRELESS_SSID, "ssid_parser", "ssid_writer",
                                FALSE, FALSE, FALSE, FALSE) >>),
       PARSE_INFO_SETTING(NM_SETTING_802_1X_SETTING_NAME,
         << PARSE_INFO_PROPERTY(NM_SETTING_802_1X_CA_CERT, "cert_parser", "cert_writer",
                                FALSE, FALSE, FALSE, FALSE),
            PARSE_INFO_PROPERTY(NM_SETTING_802_1X_CLIENT_CERT, "cert_parser", "cert_writer",
                                FALSE, FALSE, FALSE, FALSE),
            PARSE_INFO_PROPERTY(NM_SETTING_802_1X_PASSWORD_RAW, "password_raw_parser", "password_raw_writer",
                                FALSE, FALSE, FALSE, FALSE),
            PARSE_INFO_PROPERTY(NM_SETTING_802_1X_PHASE2_CA_CERT, "cert_parser", "cert_writer",
                                FALSE, FALSE, FALSE, FALSE),
            PARSE_INFO_PROPERTY(NM_SETTING_802_1X_PHASE2_CLIENT_CERT, "cert_parser", "cert_writer",
                                FALSE, FALSE, FALSE, FALSE),
            PARSE_INFO_PROPERTY(NM_SETTING_802_1X_PHASE2_PRIVATE_KEY, "cert_parser", "cert_writer",
                                FALSE, FALSE, FALSE, FALSE),
            PARSE_INFO_PROPERTY(NM_SETTING_802_1X_PRIVATE_KEY, "cert_parser", "cert_writer",
                                FALSE, FALSE, FALSE, FALSE) >>),
       PARSE_INFO_SETTING(NM_SETTING_WIRED_SETTING_NAME,
         << PARSE_INFO_PROPERTY(NM_SETTING_WIRED_CLONED_MAC_ADDRESS, "mac_address_parser_ETHER_cloned", "NULL",
                                FALSE, FALSE, FALSE, FALSE),
            PARSE_INFO_PROPERTY(NM_SETTING_WIRED_MAC_ADDRESS, "mac_address_parser_ETHER", "NULL",
                                FALSE, FALSE, FALSE, FALSE) >>),
       PARSE_INFO_SETTING(NM_SETTING_BLUETOOTH_SETTING_NAME,
         << PARSE_INFO_PROPERTY(NM_SETTING_BLUETOOTH_BDADDR, "mac_address_parser_ETHER", "NULL",
                                FALSE, FALSE, FALSE, FALSE) >>),
       PARSE_INFO_SETTING(NM_SETTING_BOND_SETTING_NAME,
         << PARSE_INFO_PROPERTY(NM_SETTING_BOND_OPTIONS, "NULL", "NULL",
                                FALSE, TRUE, FALSE, FALSE) >>),
       PARSE_INFO_SETTING(NM_SETTING_BRIDGE_SETTING_NAME,
         << PARSE_INFO_PROPERTY(NM_SETTING_BRIDGE_MAC_ADDRESS, "mac_address_parser_ETHER", "NULL",
                                FALSE, FALSE, FALSE, FALSE) >>),
       PARSE_INFO_SETTING(NM_SETTING_CONNECTION_SETTING_NAME,
         << PARSE_INFO_PROPERTY(NM_SETTING_CONNECTION_READ_ONLY, "NULL", "NULL",
                                TRUE, FALSE, TRUE, FALSE),
            PARSE_INFO_PROPERTY(NM_SETTING_CONNECTION_TYPE, "setting_alias_parser", "setting_alias_writer",
                                FALSE, FALSE, FALSE, FALSE) >>),
       PARSE_INFO_SETTING(NM_SETTING_INFINIBAND_SETTING_NAME,
         << PARSE_INFO_PROPERTY(NM_SETTING_INFINIBAND_MAC_ADDRESS, "mac_address_parser_INFINIBAND", "NULL",
                                FALSE, FALSE, FALSE, FALSE) >>),
       PARSE_INFO_SETTING(NM_SETTING_IP4_CONFIG_SETTING_NAME, parse_infos_ip_common),
       PARSE_INFO_SETTING(NM_SETTING_IP6_CONFIG_SETTING_NAME,
         << PARSE_INFO_PROPERTY(NM_SETTING_IP6_CONFIG_ADDR_GEN_MODE, "ip6_addr_gen_mode_parser", "ip6_addr_gen_mode_writer",
                                FALSE, TRUE, FALSE, TRUE) >> \o parse_infos_ip_common),
       PARSE_INFO_SETTING(NM_SETTING_SERIAL_SETTING_NAME,
         << PARSE_INFO_PROPERTY(NM_SETTING_SERIAL_PARITY, "parity_parser", "NULL",
                                FALSE, FALSE, FALSE, FALSE) >>),
       PARSE_INFO_SETTING(NM_SETTING_SRIOV_SETTING_NAME,
         << PARSE_INFO_PROPERTY(NM_SETTING_SRIOV_VFS, "sriov_vfs_parser", "sriov_vfs_writer",
                                FALSE, TRUE, FALSE, FALSE) >>),
       PARSE_INFO_SETTING(NM_SETTING_TC_CONFIG_SETTING_NAME,
         << PARSE_INFO_PROPERTY(NM_SETTING_TC_CONFIG_QDISCS, "qdisc_parser", "qdisc_writer",
                                FALSE, TRUE, FALSE, FALSE),
            PARSE_INFO_PROPERTY(NM_SETTING_TC_CONFIG_TFILTERS, "tfilter_parser", "tfilter_writer",
                                FALSE, TRUE, FALSE, FALSE) >>),
       PARSE_INFO_SETTING(NM_SETTING_TEAM_SETTING_NAME,
         << PARSE_INFO_PROPERTY(NM_SETTING_TEAM_CONFIG, "team_config_parser", "NULL",
                                FALSE, FALSE, FALSE, FALSE),
            PARSE_INFO_PROPERTY(NM_SETTING_TEAM_LINK_WATCHERS, "NULL", "NULL",
                                TRUE, FALSE, TRUE, FALSE),
            PARSE_INFO_PROPERTY(NM_SETTING_TEAM_MCAST_REJOIN_COUNT, "NULL", "NULL",
                                TRUE, FALSE, TRUE, FALSE),
            PARSE_INFO_PROPERTY(NM_SETTING_TEAM_MCAST_REJOIN_INTERVAL, "NULL", "NULL",
                                TRUE, FALSE, TRUE, FALSE),
            PARSE_INFO_PROPERTY(NM_SETTING_TEAM_NOTIFY_PEERS_COUNT, "NULL", "NULL",
                                TRUE, FALSE, TRUE, FALSE),
            PARSE_INFO_PROPERTY(NM_SETTING_TEAM_NOTIFY_PEERS_INTERVAL, "NULL", "NULL",
                                TRUE, FALSE, TRUE, FALSE),
            PARSE_INFO_PROPERTY(NM_SETTING_TEAM_RUNNER, "NULL", "NULL",
                                TRUE, FALSE, TRUE, FALSE),
            PARSE_INFO_PROPERTY(NM_SETTING_TEAM_RUNNER_ACTIVE, "NULL", "NULL",
                                TRUE, FALSE, TRUE, FALSE),
            PARSE_INFO_PROPERTY(NM_SETTING_TEAM_RUNNER_AGG_SELECT_POLICY, "NULL", "NULL",
                                TRUE, FALSE, TRUE, FALSE),
            PARSE_INFO_PROPERTY(NM_SETTING_TEAM_RUNNER_FAST_RATE, "NULL", "NULL",
                                TRUE, FALSE, TRUE, FALSE),
            PARSE_INFO_PROPERTY(NM_SETTING_TEAM_RUNNER_HWADDR_POLICY, "NULL", "NULL",
                                TRUE, FALSE, TRUE, FALSE),
            PARSE_INFO_PROPERTY(NM_SETTING_TEAM_RUNNER_MIN_PORTS, "NULL", "NULL",
                                TRUE, FALSE, TRUE, FALSE),
            PARSE_INFO_PROPERTY(NM_SETTING_TEAM_RUNNER_SYS_PRIO, "NULL", "NULL",
                                TRUE, FALSE, TRUE, FALSE),
            PARSE_INFO_PROPERTY(NM_SETTING_TEAM_RUNNER_TX_BALANCER, "NULL", "NULL",
                                TRUE, FALSE, TRUE, FALSE),
            PARSE_INFO_PROPERTY(NM_SETTING_TEAM_RUNNER_TX_BALANCER_INTERVAL, "NULL", "NULL",
                                TRUE, FALSE, TRUE, FALSE),
            PARSE_INFO_PROPERTY(NM_SETTING_TEAM_RUNNER_TX_HASH, "NULL", "NULL",
                                TRUE, FALSE, TRUE, FALSE) >>),
       PARSE_INFO_SETTING(NM_SETTING_TEAM_PORT_SETTING_NAME,
         << PARSE_INFO_PROPERTY(NM_SETTING_TEAM_CONFIG, "team_config_parser", "NULL",
                                FALSE, FALSE, FALSE, FALSE),
            PARSE_INFO_PROPERTY(NM_SETTING_TEAM_PORT_LACP_KEY, "NULL", "NULL",
                                TRUE, FALSE, TRUE, FALSE),
            PARSE_INFO_PROPERTY(NM_SETTING_TEAM_PORT_LACP_PRIO, "NULL", "NULL",
                                TRUE, FALSE, TRUE, FALSE),
            PARSE_INFO_PROPERTY(NM_SETTING_TEAM_PORT_LINK_WATCHERS, "NULL", "NULL",
                                TRUE, FALSE, TRUE, FALSE),
            PARSE_INFO_PROPERTY(NM_SETTING_TEAM_PORT_PRIO, "NULL", "NULL",
                                TRUE, FALSE, TRUE, FALSE),
            PARSE_INFO_PROPERTY(NM_SETTING_TEAM_PORT_QUEUE_ID, "NULL", "NULL",
                                TRUE, FALSE, TRUE, FALSE),
            PARSE_INFO_PROPERTY(NM_SETTING_TEAM_PORT_STICKY, "NULL", "NULL",
                                TRUE, FALSE, TRUE, FALSE) >>),
       PARSE_INFO_SETTING(NM_SETTING_USER_SETTING_NAME,
         << PARSE_INFO_PROPERTY(NM_SETTING_USER_DATA, "NULL", "NULL",
                                FALSE, TRUE, FALSE, FALSE) >>),
       PARSE_INFO_SETTING(NM_SETTING_VLAN_SETTING_NAME,
         << PARSE_INFO_PROPERTY(NM_SETTING_VLAN_FLAGS, "NULL", "NULL",
                                FALSE, FALSE, FALSE, TRUE) >>),
       PARSE_INFO_SETTING(NM_SETTING_VPN_SETTING_NAME,
         << PARSE_INFO_PROPERTY(NM_SETTING_VPN_DATA, "NULL", "NULL",
                                FALSE, TRUE, FALSE, FALSE),
            PARSE_INFO_PROPERTY(NM_SETTING_VPN_PERSISTENT, "NULL", "NULL",
                                FALSE, TRUE, FALSE, FALSE),
            PARSE_INFO_PROPERTY(NM_SETTING_VPN_SECRETS, "NULL", "NULL",
                                FALSE, TRUE, FALSE, FALSE),
            PARSE_INFO_PROPERTY(NM_SETTING_VPN_SERVICE_TYPE, "NULL", "NULL",
                                FALSE, TRUE, FALSE, FALSE),
            PARSE_INFO_PROPERTY(NM_SETTING_VPN_TIMEOUT, "NULL", "NULL",
                                FALSE, TRUE, FALSE, FALSE),
            PARSE_INFO_PROPERTY(NM_SETTING_VPN_USER_NAME, "NULL", "NULL",
                                FALSE, TRUE, FALSE, FALSE) >>),
       PARSE_INFO_SETTING(NM_SETTING_WIMAX_SETTING_NAME,
         << PARSE_INFO_PROPERTY(NM_SETTING_WIMAX_MAC_ADDRESS, "mac_address_parser_ETHER", "NULL",
                                FALSE, FALSE, FALSE, FALSE) >>) >>

\* a bisection that never goes on above the middle
RECURSIVE find_binary_search_below(_, _, _, _)
find_binary_search_below(names, needle, imin, imax) ==
    IF imin > imax THEN 0
    ELSE IF strcmp(names[imin + (imax - imin) \div 2], needle) = 0
    THEN imin + (imax - imin) \div 2
    ELSE find_binary_search_below(names, needle, imin, imin + (imax - imin) \div 2 - 1)

\* _nm_utils_array_find_binary_search over the names names[imin..imax] for
\* needle: the index of the match, or 0 when the bisection ends without one
RECURSIVE find_binary_search(_, _, _, _)
find_binary_search(names, needle, imin, imax) ==
    IF imin > imax THEN 0
    ELSE Let(imin + (imax - imin) \div 2,
             LAMBDA imid :
                 Let(strcmp(names[imid], needle),
                     LAMBDA c :
                         IF c = 0 THEN imid
                         ELSE IF c < 0
                         THEN find_binary_search(names, needle, imid + 1, imax)
                         ELSE find_binary_search(names, needle, imin, imid - 1)))

\* the second bisection of _parse_info_find, over the properties pis of the
\* setting found
parse_info_find_property(pis, property_name) ==
    Let(find_binary_search([j \in 1..Len(pis) |-> pis[j].property_name],
                           property_name, 1, Len(pis)),
        LAMBDA jdx : IF jdx >= 1 THEN pis[jdx] ELSE NoParseInfo)

\* the first bisection of _parse_info_find, over the settings pinfos
parse_info_find_setting(pinfos, setting_name, property_name) ==
    Let(find_binary_search([i \in 1..Len(pinfos) |-> pinfos[i].setting_name],
                           setting_name, 1, Len(pinfos)),
        LAMBDA idx : IF idx >= 1
                     THEN parse_info_find_property(pinfos[idx].properties, property_name)
                     ELSE NoParseInfo)

_parse_info_find(setting_name, property_name) ==
    parse_info_find_setting(parse_infos, setting_name, property_name)

(***************************************************************************)
(* Maps of strings.  A GHashTable from strings to strings is the set of    *)
(* its entries, at most one for a key.                                     *)
(***************************************************************************)
StrDictEntry(key, value) == [key |-> key, value |-> value]

strdict_keys(hash) == {e.key : e \in hash}

g_hash_table_lookup(hash, key) ==
    IF key \in strdict_keys(hash) THEN (CHOOSE e \in hash : e.key = key).value ELSE NULL

g_hash_table_insert(hash, key, value) ==
    {e \in hash : e.key # key} \cup {StrDictEntry(key, value)}

\* nm_utils_strdict_get_keys (hash, TRUE, &l): the keys in strcmp order
RECURSIVE sorted_keys(_)
sorted_keys(keys) ==
    IF keys = {} THEN << >>
    ELSE LET first == CHOOSE k \in keys : \A o \in keys : strcmp(k, o) <= 0
         IN  << first >> \o sorted_keys(keys \ {first})

nm_utils_strdict_get_keys(hash) == sorted_keys(strdict_keys(hash))

(***************************************************************************)
(* nm_keyfile_key_encode and nm_keyfile_key_decode: a character a key of   *)
(* the store cannot hold is written as a backslash and two hex digits.     *)
(***************************************************************************)
is_xdigit_at(name, i) == i <= Len(name) /\ is_hex_digit(name[i])

\* the characters nm_keyfile_key_encode escapes: control characters,
\* '[', ']', '=', a backslash before two hex digits, and a space at either
\* end of the name
key_needs_escape(name, i) ==
    \/ name[i] < 32
    \/ name[i] \in {91, 93, 61, 127}
    \/ name[i] = 92 /\ is_xdigit_at(name, i + 1) /\ is_xdigit_at(name, i + 2)
    \/ name[i] = 32 /\ (i = 1 \/ i = Len(name))

hex_digit_char(d) == IF d < 10 THEN 48 + d ELSE 55 + d

\* printf ("\\%2X", ch)
key_escape(ch) ==
    << 92, IF ch < 16 THEN 32 ELSE hex_digit_char(ch \div 16), hex_digit_char(ch % 16) >>

RECURSIVE key_encode_from(_, _)
key_encode_from(name, i) ==
    IF i > Len(name) THEN << >>
    ELSE (IF key_needs_escape(name, i) THEN key_escape(name[i]) ELSE << name[i] >>)
         \o key_encode_from(name, i + 1)

nm_keyfile_key_encode(name) ==
    IF name = << >> THEN << 92, 48, 48 >> ELSE key_encode_from(name, 1)

hex_value(c) ==
    IF c \in 48..57 THEN c - 48 ELSE IF c \in 97..102 THEN c - 87 ELSE c - 55

\* an escape of the value 0 stays as it is written
RECURSIVE key_decode_from(_, _)
key_decode_from(key, i) ==
    IF i > Len(key) THEN << >>
    ELSE IF /\ key[i] = 92
            /\ is_xdigit_at(key, i + 1)
            /\ is_xdigit_at(key, i + 2)
            /\ 16 * hex_value(key[i + 1]) + hex_value(key[i + 2]) # 0
    THEN << 16 * hex_value(key[i + 1]) + hex_value(key[i + 2]) >>
         \o key_decode_from(key, i + 3)
    ELSE << key[i] >> \o key_decode_from(key, i + 1)

nm_keyfile_key_decode(key) ==
    IF key = << 92, 48, 48 >> THEN << >> ELSE key_decode_from(key, 1)

(***************************************************************************)
(* The VPN setting: its data items and its secrets.                        *)
(***************************************************************************)
\* nm_setting_vpn_add_data_item: an empty key or an empty item is refused
nm_setting_vpn_add_data_item(setting, key, item) ==
    IF key = << >> \/ item = << >> THEN setting
    ELSE [setting EXCEPT !.props[NM_SETTING_VPN_DATA] = g_hash_table_insert(@, key, item)]

\* nm_setting_vpn_add_secret: an empty key or an empty secret is refused
nm_setting_vpn_add_secret(setting, key, secret) ==
    IF key = << >> \/ secret = << >> THEN setting
    ELSE [setting EXCEPT !.props[NM_SETTING_VPN_SECRETS] = g_hash_table_insert(@, key, secret)]

Suffix_flags == Str(<<"-", "f", "l", "a", "g", "s">>)

NM_SETTING_SECRET_FLAGS_ALL == 7

\* the get_secret_flags of the VPN setting: the data item <secret_name>-flags
\* as a number, none when there is no such item or it is no set of flags
vpn_secret_flags_of(val) ==
    IF val = NULL THEN NM_SETTING_SECRET_FLAG_NONE
    ELSE Let(scan_integer(val, NM_SETTING_SECRET_FLAGS_ALL),
             LAMBDA sc : IF sc.ok /\ sc.val >= 0 /\ sc.val <= NM_SETTING_SECRET_FLAGS_ALL
                         THEN sc.val
                         ELSE NM_SETTING_SECRET_FLAG_NONE)

nm_setting_vpn_get_secret_flags(setting, secret_name) ==
    vpn_secret_flags_of(g_hash_table_lookup(setting.props[NM_SETTING_VPN_DATA],
                                            secret_name \o Suffix_flags))

\* g_object_class_find_property (G_OBJECT_GET_CLASS (setting), name) != NULL
class_has_property(setting_name, name) ==
    \E i \in 1..Len(SettingProperties(setting_name)) :
        SettingProperties(setting_name)[i].name = name

\* nm_setting_bond_add_option: the option is stored under its name
nm_setting_bond_add_option(setting, name, value) ==
    [setting EXCEPT !.props[NM_SETTING_BOND_OPTIONS] = g_hash_table_insert(@, name, value)]

\* one key of the group in read_hash_of_string for the VPN setting and the
\* bond setting
read_hash_of_string_vpn_item(info, iter, value) ==
    IF value = NULL THEN info
    ELSE IF info.setting.name = NM_SETTING_VPN_SETTING_NAME
    THEN IF class_has_property(info.setting.name, nm_keyfile_key_decode(iter)) THEN info
         ELSE [info EXCEPT !.setting =
                   nm_setting_vpn_add_data_item(@, nm_keyfile_key_decode(iter), value)]
    ELSE IF nm_keyfile_key_decode(iter) = NM_SETTING_CONNECTION_INTERFACE_NAME THEN info
    ELSE [info EXCEPT !.setting =
              nm_setting_bond_add_option(@, nm_keyfile_key_decode(iter), value)]

RECURSIVE read_hash_of_string_vpn(_, _, _)
read_hash_of_string_vpn(info, keys, i) ==
    IF i > Len(keys) THEN info
    ELSE read_hash_of_string_vpn(
             read_hash_of_string_vpn_item(
                 info, keys[i],
                 nm_keyfile_plugin_kf_get_string(info.keyfile, info.setting.name, keys[i])),
             keys, i + 1)

\* read_hash_of_string: of the settings with a map of strings the catalog
\* has the VPN setting and the bond setting
read_hash_of_string(info, key) ==
    IF info.setting.name \in {NM_SETTING_VPN_SETTING_NAME, NM_SETTING_BOND_SETTING_NAME}
    THEN read_hash_of_string_vpn(
             info, nm_keyfile_plugin_kf_get_keys(info.keyfile, info.setting.name), 1)
    ELSE info

\* read_vpn_secrets without the decoding of the key, from the i-th key on
RECURSIVE read_vpn_secrets_loop(_, _, _, _)
read_vpn_secrets_loop(kf, s_vpn, keys, i) ==
    IF i > Len(keys) THEN s_vpn
    ELSE read_vpn_secrets_loop(
             kf,
             Let(nm_keyfile_plugin_kf_get_string(kf, NM_KEYFILE_GROUP_VPN_SECRETS, keys[i]),
                 LAMBDA secret : IF secret # NULL
                                 THEN nm_setting_vpn_add_secret(s_vpn, keys[i], secret)
                                 ELSE s_vpn),
             keys, i + 1)

read_vpn_secrets(kf, s_vpn) ==
    read_vpn_secrets_loop(
        kf, s_vpn, nm_keyfile_plugin_kf_get_keys(kf, NM_KEYFILE_GROUP_VPN_SECRETS), 1)

(***************************************************************************)
(* The generic reader.                                                     *)
(***************************************************************************)
\* g_key_file_get_boolean: FALSE on anything but "true" and "1"
value_as_boolean(v) == v = Str(<<"t", "r", "u", "e">>) \/ v = Str(<<"1">>)

nm_keyfile_plugin_kf_get_boolean(kf, group, key) ==
    value_as_boolean(nm_keyfile_plugin_kf_get_value(kf, group, key))

g_key_file_boolean_value(b) ==
    IF b THEN Str(<<"t", "r", "u", "e">>) ELSE Str(<<"f", "a", "l", "s", "e">>)

\* g_key_file_get_uint64: err when the key is missing or the value is not
\* one number; val is capped just above G_MAXUINT, a negative number wraps
\* to a value above G_MAXUINT
scanned_as_uint64(sc) ==
    IF ~ sc.ok \/ sc.rest # << >>
    THEN [err |-> TRUE, val |-> 0]
    ELSE [err |-> FALSE, val |-> IF sc.val < 0 THEN G_MAXUINT32 + 1 ELSE sc.val]

value_as_uint64(v) ==
    IF v = NULL \/ v = << >> THEN [err |-> TRUE, val |-> 0]
    ELSE scanned_as_uint64(scan_integer(v, G_MAXUINT32))

nm_keyfile_plugin_kf_get_uint64(kf, group, key) ==
    value_as_uint64(nm_keyfile_plugin_kf_get_value(kf, group, key))

G_MININT8 == -128
G_MAXINT8 == 127

\* the switch of parity_parser on int_val
parity_of_int_val(info, key, int_val) ==
    IF int_val \in {69, 101} THEN g_object_set(info, key, NM_SETTING_SERIAL_PARITY_EVEN)
    ELSE IF int_val \in {79, 111} THEN g_object_set(info, key, NM_SETTING_SERIAL_PARITY_ODD)
    ELSE IF int_val \in {78, 110} THEN g_object_set(info, key, NM_SETTING_SERIAL_PARITY_NONE)
    ELSE handle_warn(info, key, NM_KEYFILE_WARN_SEVERITY_WARN)

\* the int_val of parity_parser for a value that is no number or the number
\* 0: the character of a string of one character, 'X' for any other string
parity_int_val_of_string(str_val) ==
    IF str_val = NULL THEN 0
    ELSE IF Len(str_val) = 1 THEN str_val[1]
    ELSE 88

parity_parser(info, key) ==
    LET int_val0 == nm_keyfile_plugin_kf_get_integer(info.keyfile, info.setting.name, key)
        int_val  == IF int_val0 = 0
                    THEN parity_int_val_of_string(
                             nm_keyfile_plugin_kf_get_string(info.keyfile, info.setting.name,
                                                             key))
                    ELSE int_val0
    IN  IF int_val = 0 THEN info
        ELSE parity_of_int_val(info, key, int_val)

\* pip->parser (info, setting, key)
call_parser(parser, info, key) ==
    CASE parser = "setting_alias_parser"       -> setting_alias_parser(info, key)
      [] parser = "ip_address_or_route_parser" -> ip_address_or_route_parser(info, key)
      [] parser = "ip_dns_parser"              -> ip_dns_parser(info, key)
      [] parser = "ip6_addr_gen_mode_parser"   -> ip6_addr_gen_mode_parser(info, key)
      [] parser = "ssid_parser"                -> ssid_parser(info, key)
      [] parser = "team_config_parser"         -> team_config_parser(info, key)
      [] parser = "qdisc_parser"               -> qdisc_parser(info, key)
      [] parser = "tfilter_parser"             -> tfilter_parser(info, key)
      [] parser = "cert_parser"                -> cert_parser(info, key)
      [] parser = "parity_parser"              -> parity_parser(info, key)
      [] OTHER                                 -> info

\* the context after a warning: the property is set unless the handler
\* set the error
set_unless_vetoed(warned, key, value) ==
    IF warned.error # 0 THEN warned ELSE g_object_set(warned, key, value)

\* the G_TYPE_UINT branch of read_one_setting_value
read_uint(info, key, int_val) ==
    IF int_val < 0
    THEN set_unless_vetoed(handle_warn(info, key, NM_KEYFILE_WARN_SEVERITY_WARN),
                           key, int_to_uint(int_val))
    ELSE g_object_set(info, key, int_to_uint(int_val))

\* the G_TYPE_CHAR branch of read_one_setting_value
read_char(info, key, int_val) ==
    IF int_val < G_MININT8 \/ int_val > G_MAXINT8
    THEN set_unless_vetoed(handle_warn(info, key, NM_KEYFILE_WARN_SEVERITY_WARN),
                           key, int_val)
    ELSE g_object_set(info, key, int_val)

\* the G_TYPE_FLAGS branch of read_one_setting_value
read_flags(info, key, uint_val) ==
    IF uint_val.err THEN info
    ELSE IF uint_val.val <= G_MAXUINT32
    THEN g_object_set(info, key, uint_val.val)
    ELSE handle_warn(info, key, NM_KEYFILE_WARN_SEVERITY_WARN)

\* the branches of read_one_setting_value on the declared type
read_value_by_type(info, setting_name, key, type) ==
    CASE type = "G_TYPE_STRING" ->
             g_object_set(info, key,
                          nm_keyfile_plugin_kf_get_string(info.keyfile, setting_name, key))
      [] type = "G_TYPE_UINT" ->
             read_uint(info, key,
                       nm_keyfile_plugin_kf_get_integer(info.keyfile, setting_name, key))
      [] type = "G_TYPE_INT" ->
             g_object_set(info, key,
                          nm_keyfile_plugin_kf_get_integer(info.keyfile, setting_name, key))
      [] type = "G_TYPE_BOOLEAN" ->
             g_object_set(info, key,
                          nm_keyfile_plugin_kf_get_boolean(info.keyfile, setting_name, key))
      [] type = "G_TYPE_CHAR" ->
             read_char(info, key,
                       nm_keyfile_plugin_kf_get_integer(info.keyfile, setting_name, key))
      [] type = "G_TYPE_STRV" ->
             g_object_set(info, key,
                          nm_keyfile_plugin_kf_get_string_list(info.keyfile, setting_name,
                                                               key))
      [] type = "G_TYPE_HASH_TABLE" -> read_hash_of_string(info, key)
      [] type = "G_TYPE_FLAGS" ->
             read_flags(info, key,
                        nm_keyfile_plugin_kf_get_uint64(info.keyfile, setting_name, key))
      [] OTHER -> handle_warn(info, key, NM_KEYFILE_WARN_SEVERITY_WARN)

\* read_one_setting_value without the test for the key in the group
read_one_setting_value_pip_any_key(info, setting_name, key, type, pip) ==
    IF pip = NoParseInfo /\ key = NM_SETTING_NAME THEN info
    ELSE IF pip # NoParseInfo /\ pip.parser_skip THEN info
    ELSE IF pip # NoParseInfo /\ pip.parser # "NULL"
    THEN call_parser(pip.parser, info, key)
    ELSE read_value_by_type(info, setting_name, key, type)

\* read_one_setting_value once the parse info pip is found
read_one_setting_value_pip(info, setting_name, key, type, pip) ==
    IF pip = NoParseInfo /\ key = NM_SETTING_NAME THEN info
    ELSE IF pip # NoParseInfo /\ pip.parser_skip THEN info
    ELSE IF /\ (pip = NoParseInfo \/ ~ pip.parser_no_check_key)
            /\ ~ nm_keyfile_plugin_kf_has_key(info.keyfile, setting_name, key)
    THEN info
    ELSE IF pip # NoParseInfo /\ pip.parser # "NULL"
    THEN call_parser(pip.parser, info, key)
    ELSE read_value_by_type(info, setting_name, key, type)

read_one_setting_value(info, key, type, flags) ==
    IF info.error # 0 THEN info
    ELSE IF G_PARAM_WRITABLE \notin flags THEN info
    ELSE read_one_setting_value_pip(info, info.setting.name, key, type,
                                    _parse_info_find(info.setting.name, key))

\* nm_setting_enumerate_values (setting, read_one_setting_value, info) from
\* the i-th property of the catalog on
RECURSIVE enumerate_values_read(_, _, _)
enumerate_values_read(info, props, i) ==
    IF i > Len(props) THEN info
    ELSE enumerate_values_read(
             read_one_setting_value(info, props[i].name, props[i].type, props[i].flags),
             props, i + 1)

\* the end of read_setting: info1 is the context after the enumeration
read_setting_end(info1) ==
    [info    |-> IF info1.error = 0
                 THEN [info1 EXCEPT !.setting = NoSetting]
                 ELSE released([info1 EXCEPT !.setting = NoSetting], Live_setting),
     setting |-> IF info1.error = 0 THEN info1.setting ELSE NoSetting]

\* read_setting for the setting name alias that the group stands for
read_setting_named(info, alias) ==
    IF nm_setting_lookup_type(alias)
    THEN read_setting_end(
             enumerate_values_read(
                 allocated([info EXCEPT !.setting = g_object_new(alias)], Live_setting),
                 SettingProperties(alias), 1))
    ELSE [info |-> handle_warn(info, NULL, NM_KEYFILE_WARN_SEVERITY_WARN),
          setting |-> NoSetting]

alias_or_group(alias, group) == IF alias = NULL THEN group ELSE alias

\* read_setting without the lookup of the alias
read_setting_unaliased(info) == read_setting_named(info, info.group)

\* read_setting: the setting read from info.group, NoSetting for NULL
read_setting(info) ==
    read_setting_named(info,
                       alias_or_group(
                           nm_keyfile_plugin_get_setting_name_for_alias(info.group),
                           info.group))

(***************************************************************************)
(* The writers.  The KeyfileWriterInfo holds the connection, the keyfile   *)
(* under construction and the error slot.                                  *)
(***************************************************************************)
kf_set_string(info, setting_name, key, string) ==
    [info EXCEPT !.keyfile = nm_keyfile_plugin_kf_set_string(@, setting_name, key, string)]

setting_alias_writer(info, setting, key, value) ==
    LET alias == nm_keyfile_plugin_get_alias_for_setting_name(value)
    IN  kf_set_string(info, setting.name, key, IF alias # NULL THEN alias ELSE value)

dns_writer(info, setting, key, value) ==
    IF Len(value) >= 1
    THEN [info EXCEPT !.keyfile =
              nm_keyfile_plugin_kf_set_string_list(@, setting.name, key, value)]
    ELSE info

ip6_addr_gen_mode_writer(info, setting, key, value) ==
    kf_set_string(info, setting.name, key, addr_gen_mode_to_str(value))

\* nm_utils_format_variant_attributes: NULL for no attribute
nm_utils_format_variant_attributes(attrs) == IF attrs = << >> THEN NULL ELSE attrs

\* the line of the writer that leaves out the gateway field of a route
\* without next hop
ip_value_line_without_gateway(family, item, gateway, is_route, i) ==
    item.addr \o << 47 >> \o fmt_unsigned(item.prefix)
        \o (IF is_route
            THEN (IF item.gw # NULL THEN << 44 >> \o item.gw ELSE << >>)
                     \o (IF item.metric # -1 THEN << 44 >> \o fmt_unsigned(item.metric)
                         ELSE << >>)
            ELSE IF i = 1 /\ gateway # NULL THEN << 44 >> \o gateway ELSE << >>)

\* the line written for the i-th entry of array
ip_value_line(family, item, gateway, is_route, i) ==
    LET metric == IF is_route THEN item.metric ELSE -1
        gw0    == IF is_route THEN item.gw ELSE IF i = 1 THEN gateway ELSE NULL
        gw     == IF gw0 = NULL THEN addr_any(family) ELSE gw0
        head   == item.addr \o << 47 >> \o fmt_unsigned(item.prefix)
    IN  IF metric # -1 \/ gw0 # NULL
        THEN head \o << 44 >> \o gw
                 \o (IF is_route /\ metric # -1 THEN << 44 >> \o fmt_unsigned(metric)
                     ELSE << >>)
        ELSE head

\* the loop of write_ip_values from the i-th entry on
RECURSIVE write_ip_values_loop(_, _, _, _, _, _)
write_ip_values_loop(file, setting_name, array, gateway, is_route, i) ==
    IF i > Len(array) THEN file
    ELSE LET family   == IF setting_name = NM_SETTING_IP4_CONFIG_SETTING_NAME
                         THEN AF_INET ELSE AF_INET6
             key_name == (IF is_route THEN BaseName_route ELSE BaseName_address)
                             \o fmt_int(i)
             file1    == nm_keyfile_plugin_kf_set_string(
                             file, setting_name, key_name,
                             ip_value_line(family, array[i], gateway, is_route, i))
             attributes == nm_utils_format_variant_attributes(array[i].attrs)
             file2    == IF is_route /\ attributes # NULL
                         THEN nm_keyfile_plugin_kf_set_string(
                                  file1, setting_name, options_key(key_name), attributes)
                         ELSE file1
         IN  write_ip_values_loop(file2, setting_name, array, gateway, is_route, i + 1)

write_ip_values(file, setting_name, array, gateway, is_route) ==
    IF Len(array) = 0 THEN file
    ELSE write_ip_values_loop(file, setting_name, array, gateway, is_route, 1)

addr_writer(info, setting, key, value) ==
    LET gateway == setting.props[NM_SETTING_IP_CONFIG_GATEWAY]
    IN  IF Len(value) > 0
        THEN [info EXCEPT !.keyfile = write_ip_values(@, setting.name, value, gateway, FALSE)]
        ELSE info

route_writer(info, setting, key, value) ==
    IF Len(value) > 0
    THEN [info EXCEPT !.keyfile = write_ip_values(@, setting.name, value, NULL, TRUE)]
    ELSE info

\* the loop of qdisc_writer / tfilter_writer from the i-th object on
RECURSIVE tc_writer_loop(_, _, _, _)
tc_writer_loop(info, prefix, array, i) ==
    IF i > Len(array) THEN info
    ELSE tc_writer_loop(kf_set_string(info, NM_SETTING_TC_CONFIG_SETTING_NAME,
                                      prefix \o array[i].parent, array[i].rest),
                        prefix, array, i + 1)

qdisc_writer(info, setting, key, value) == tc_writer_loop(info, Prefix_qdisc, value, 1)

tfilter_writer(info, setting, key, value) == tc_writer_loop(info, Prefix_tfilter, value, 1)

\* the first loop of ssid_writer: new_format
all_printable(ssid_data) ==
    \A i \in 1..Len(ssid_data) : g_ascii_isprint(ssid_data[i])

\* the copy of ssid_data with a backslash before every semicolon
RECURSIVE escape_semicolons(_)
escape_semicolons(ssid_data) ==
    IF ssid_data = << >> THEN << >>
    ELSE IF ssid_data[1] = 59 THEN << 92, 59 >> \o escape_semicolons(Tail(ssid_data))
    ELSE << ssid_data[1] >> \o escape_semicolons(Tail(ssid_data))

ssid_writer(info, setting, key, value) ==
    IF value = NULL THEN info
    ELSE IF Len(value) = 0 THEN kf_set_string(info, setting.name, key, << >>)
    ELSE IF all_printable(value)
    THEN kf_set_string(info, setting.name, key, escape_semicolons(value))
    ELSE [info EXCEPT !.keyfile =
              nm_keyfile_plugin_kf_set_integer_list_uint8(@, setting.name, key, value)]

(***************************************************************************)
(* The generic writer.                                                     *)
(***************************************************************************)
\* the call of the write handler for a certificate: the handler is external
\* code that handles the invocations in info.handled itself (it returns
\* TRUE) and sets the error on the invocations in info.errors
write_handler_called(info, key) ==
    [info EXCEPT !.ncalls = @ + 1,
                 !.error  = IF (info.ncalls + 1) \in info.errors /\ @ = 0
                            THEN info.ncalls + 1 ELSE @,
                 !.log    = Append(@, key)]

\* the path scheme written with its prefix in every case
cert_writer_path_prefixed(info, setting_name, key, path, base_dir) ==
    kf_set_string(info, setting_name, key, NM_KEYFILE_CERT_SCHEME_PREFIX_PATH \o path)

\* cert_writer_default for the path scheme, once the path is absolute: the
\* prefix is written only when the path alone would not be recognized
cert_writer_path(info, setting_name, key, path, base_dir) ==
    IF nm_keyfile_detect_unqualified_path_scheme(base_dir, path, FALSE, FALSE).path # NULL
    THEN kf_set_string(info, setting_name, key, path)
    ELSE kf_set_string(info, setting_name, key, NM_KEYFILE_CERT_SCHEME_PREFIX_PATH \o path)

\* the path of a value of the path scheme: nm_setting_802_1x_get_*_path
cert_path_func(value) ==
    c_str(Tail_from(value, Len(NM_KEYFILE_CERT_SCHEME_PREFIX_PATH) + 1))

cert_writer_default_scheme(info, setting, key, value, scheme, path) ==
    IF scheme = NM_SETTING_802_1X_CK_SCHEME_PATH
    THEN IF path # << >> /\ path[1] # 47
         THEN cert_writer_path(info, setting.name, key,
                               info.current_dir \o << 47 >> \o path, info.current_dir)
         ELSE cert_writer_path(info, setting.name, key, path, g_path_get_dirname(path))
    ELSE IF scheme = NM_SETTING_802_1X_CK_SCHEME_BLOB
    THEN kf_set_string(info, setting.name, key,
                       NM_KEYFILE_CERT_SCHEME_PREFIX_BLOB \o g_base64_encode(value))
    ELSE IF scheme = NM_SETTING_802_1X_CK_SCHEME_PKCS11
    THEN kf_set_string(info, setting.name, key, c_str(value))
    ELSE info

cert_writer_default(info, setting, key, value) ==
    cert_writer_default_scheme(info, setting, key, value,
                               nm_setting_802_1x_check_cert_scheme(value),
                               cert_path_func(value))

\* cert_writer after the call of the handler, which was the invocation n
cert_writer_handled(info, setting, key, value, n) ==
    IF n \in info.handled THEN info
    ELSE IF info.error # 0 THEN info
    ELSE cert_writer_default(info, setting, key, value)

cert_writer(info, setting, key, value) ==
    IF info.handler
    THEN cert_writer_handled(write_handler_called(info, key), setting, key, value,
                             info.ncalls + 1)
    ELSE cert_writer_default(info, setting, key, value)

\* g_object_class_find_property: the catalog entry of the property
property_named(ps, key) == ps[CHOOSE i \in 1..Len(ps) : ps[i].name = key]

find_property(setting_name, key) == property_named(SettingProperties(setting_name), key)

\* nm_setting_get_secret_flags: the value of the property <key>-flags
nm_setting_get_secret_flags(setting, key) ==
    IF setting.name = NM_SETTING_VPN_SETTING_NAME
    THEN nm_setting_vpn_get_secret_flags(setting, key)
    ELSE setting.props[key \o Suffix_flags]

\* g_param_value_defaults: a boxed array read from a setting is a fresh
\* object and never the default NULL
g_param_value_defaults(pspec, value) ==
    IF pspec.type \in {"G_TYPE_PTR_ARRAY", "G_TYPE_STRV", "G_TYPE_HASH_TABLE"} THEN FALSE
    ELSE value = pspec.default

nm_keyfile_plugin_kf_set_boolean(kf, group, key, value) ==
    nm_keyfile_plugin_kf_set_value(kf, group, key, g_key_file_boolean_value(value))

nm_keyfile_plugin_kf_set_uint64(kf, group, key, value) ==
    nm_keyfile_plugin_kf_set_value(kf, group, key, fmt_unsigned(value))

\* one key of the map in write_hash_of_string
write_hash_of_string_item(info, setting, group_name, vpn_secrets, hash, property) ==
    IF /\ vpn_secrets
       /\ nm_setting_get_secret_flags(setting, property) # NM_SETTING_SECRET_FLAG_NONE
    THEN info
    ELSE kf_set_string(info, group_name, nm_keyfile_key_encode(property),
                       g_hash_table_lookup(hash, property))

RECURSIVE write_hash_of_string_loop(_, _, _, _, _, _, _)
write_hash_of_string_loop(info, setting, group_name, vpn_secrets, hash, keys, i) ==
    IF i > Len(keys) THEN info
    ELSE write_hash_of_string_loop(
             write_hash_of_string_item(info, setting, group_name, vpn_secrets, hash, keys[i]),
             setting, group_name, vpn_secrets, hash, keys, i + 1)

write_hash_of_string(info, setting, key, value) ==
    IF setting.name = NM_SETTING_VPN_SETTING_NAME /\ key = NM_SETTING_VPN_SECRETS
    THEN write_hash_of_string_loop(info, setting, NM_KEYFILE_GROUP_VPN_SECRETS, TRUE, value,
                                   nm_utils_strdict_get_keys(value), 1)
    ELSE write_hash_of_string_loop(info, setting, setting.name, FALSE, value,
                                   nm_utils_strdict_get_keys(value), 1)

\* pip->writer (info, setting, key, value)
call_writer(writer, info, setting, key, value) ==
    CASE writer = "setting_alias_writer"     -> setting_alias_writer(info, setting, key, value)
      [] writer = "addr_writer"              -> addr_writer(info, setting, key, value)
      [] writer = "route_writer"             -> route_writer(info, setting, key, value)
      [] writer = "dns_writer"               -> dns_writer(info, setting, key, value)
      [] writer = "ip6_addr_gen_mode_writer" -> ip6_addr_gen_mode_writer(info, setting, key, value)
      [] writer = "ssid_writer"              -> ssid_writer(info, setting, key, value)
      [] writer = "qdisc_writer"             -> qdisc_writer(info, setting, key, value)
      [] writer = "tfilter_writer"           -> tfilter_writer(info, setting, key, value)
      [] writer = "cert_writer"              -> cert_writer(info, setting, key, value)
      [] OTHER                               -> info

\* the branches of write_setting_value on the declared type
write_value_by_type(info, setting, key, value, type) ==
    IF type = "G_TYPE_STRING"
    THEN IF value # NULL THEN kf_set_string(info, setting.name, key, value) ELSE info
    ELSE IF type = "G_TYPE_UINT"
    THEN [info EXCEPT !.keyfile =
              nm_keyfile_plugin_kf_set_integer(@, setting.name, key, uint_to_int(value))]
    ELSE IF type \in {"G_TYPE_INT", "G_TYPE_CHAR"}
    THEN [info EXCEPT !.keyfile =
              nm_keyfile_plugin_kf_set_integer(@, setting.name, key, value)]
    ELSE IF type = "G_TYPE_BOOLEAN"
    THEN [info EXCEPT !.keyfile =
              nm_keyfile_plugin_kf_set_boolean(@, setting.name, key, value)]
    ELSE IF type = "G_TYPE_STRV"
    THEN [info EXCEPT !.keyfile =
              nm_keyfile_plugin_kf_set_string_list(@, setting.name, key, value)]
    ELSE IF type = "G_TYPE_HASH_TABLE"
    THEN write_hash_of_string(info, setting, key, value)
    ELSE IF type = "G_TYPE_FLAGS"
    THEN [info EXCEPT !.keyfile =
              nm_keyfile_plugin_kf_set_uint64(@, setting.name, key, value)]
    ELSE IF type = "G_TYPE_ENUM"
    THEN [info EXCEPT !.keyfile =
              nm_keyfile_plugin_kf_set_integer(@, setting.name, key, value)]
    ELSE info

\* write_setting_value without the test of the secret flags
write_setting_value_pip_secrets(info, setting, key, pspec, pip) ==
    IF pip = NoParseInfo /\ key = NM_SETTING_NAME THEN info
    ELSE IF pip # NoParseInfo /\ pip.writer_skip THEN info
    ELSE IF /\ (pip = NoParseInfo \/ ~ pip.writer_persist_default)
            /\ g_param_value_defaults(pspec, setting.props[key])
    THEN info
    ELSE IF pip # NoParseInfo /\ pip.writer # "NULL"
    THEN call_writer(pip.writer, info, setting, key, setting.props[key])
    ELSE write_value_by_type(info, setting, key, setting.props[key], pspec.type)

\* write_setting_value without the test of writer_persist_default
write_setting_value_pip_defaults(info, setting, key, pspec, pip) ==
    IF pip = NoParseInfo /\ key = NM_SETTING_NAME THEN info
    ELSE IF pip # NoParseInfo /\ pip.writer_skip THEN info
    ELSE IF /\ NM_SETTING_PARAM_SECRET \in pspec.flags
            /\ setting.name # NM_SETTING_VPN_SETTING_NAME
            /\ nm_setting_get_secret_flags(setting, key) # NM_SETTING_SECRET_FLAG_NONE
    THEN info
    ELSE IF g_param_value_defaults(pspec, setting.props[key])
    THEN info
    ELSE IF pip # NoParseInfo /\ pip.writer # "NULL"
    THEN call_writer(pip.writer, info, setting, key, setting.props[key])
    ELSE write_value_by_type(info, setting, key, setting.props[key], pspec.type)

\* write_setting_value once the property pspec and the parse info pip are
\* found
write_setting_value_pip(info, setting, key, pspec, pip) ==
    IF pip = NoParseInfo /\ key = NM_SETTING_NAME THEN info
    ELSE IF pip # NoParseInfo /\ pip.writer_skip THEN info
    ELSE IF /\ NM_SETTING_PARAM_SECRET \in pspec.flags
            /\ setting.name # NM_SETTING_VPN_SETTING_NAME
            /\ nm_setting_get_secret_flags(setting, key) # NM_SETTING_SECRET_FLAG_NONE
    THEN info
    ELSE IF /\ (pip = NoParseInfo \/ ~ pip.writer_persist_default)
            /\ g_param_value_defaults(pspec, setting.props[key])
    THEN info
    ELSE IF pip # NoParseInfo /\ pip.writer # "NULL"
    THEN call_writer(pip.writer, info, setting, key, setting.props[key])
    ELSE write_value_by_type(info, setting, key, setting.props[key], pspec.type)

\* write_setting_value without the test of info->error
write_setting_value_unchecked(info, setting, key) ==
    write_setting_value_pip(info, setting, key, find_property(setting.name, key),
                            _parse_info_find(setting.name, key))

write_setting_value(info, setting, key) ==
    IF info.error # 0 THEN info
    ELSE write_setting_value_pip(info, setting, key, find_property(setting.name, key),
                                 _parse_info_find(setting.name, key))

(***************************************************************************)
(* Connections: the settings of a connection, at most one of each name.    *)
(***************************************************************************)
nm_simple_connection_new == << >>

setting_index(connection, setting_name) ==
    IF \E i \in 1..Len(connection) : connection[i].name = setting_name
    THEN CHOOSE i \in 1..Len(connection) : connection[i].name = setting_name
    ELSE 0

\* nm_connection_add_setting: a setting of the same type is replaced
nm_connection_add_setting_at(connection, setting, i) ==
    IF i = 0 THEN Append(connection, setting) ELSE [connection EXCEPT ![i] = setting]

nm_connection_add_setting(connection, setting) ==
    nm_connection_add_setting_at(connection, setting,
                                 setting_index(connection, setting.name))

\* nm_connection_verify, as far as the codec depends on it: there is a
\* connection setting and it has an id
connection_verify_at(connection, i) ==
    i # 0 /\ connection[i].props[NM_SETTING_CONNECTION_ID] # NULL

\* the verify of the VPN setting: it has a service type
vpn_verify_at(connection, k) ==
    k = 0 \/ connection[k].props[NM_SETTING_VPN_SERVICE_TYPE] \notin {NULL, << >>}

nm_connection_verify(connection) ==
    /\ connection_verify_at(connection,
                            setting_index(connection, NM_SETTING_CONNECTION_SETTING_NAME))
    /\ vpn_verify_at(connection, setting_index(connection, NM_SETTING_VPN_SETTING_NAME))

\* g_path_get_basename for a file name that does not end in a slash
RECURSIVE g_path_get_basename(_)
g_path_get_basename(file_name) ==
    IF strchr(file_name, 47)
    THEN g_path_get_basename(Tail(file_name))
    ELSE file_name

\* _nm_utils_uuid_generate_from_strings ("keyfile", keyfile_name, NULL): a
\* text that is a function of the file name
uuid_generate_from_strings(keyfile_name) == << 35 >> \o keyfile_name

\* g_key_file_get_string on the group as named, without the alias lookup
entry_as_string(es, j) ==
    IF j = 0 THEN NULL ELSE g_key_file_parse_value_as_string(es[j].value)

entries_get_string(es, key) == entry_as_string(es, entry_index(es, key))

group_entries(kf, i) == IF i = 0 THEN << >> ELSE kf[i].entries

g_key_file_get_string(kf, group, key) ==
    entries_get_string(group_entries(kf, g_key_file_group_index(kf, group)), key)

\* nm_keyfile_read, "if (!nm_setting_connection_get_interface_name (s_con))":
\* p are the properties of the connection setting, ifn is the interface
\* name that the group named by the type holds
fixup_interface_name(p, ifn) ==
    IF p[NM_SETTING_CONNECTION_INTERFACE_NAME] = NULL /\ ifn # NULL
    THEN [p EXCEPT ![NM_SETTING_CONNECTION_INTERFACE_NAME] = ifn]
    ELSE p

fixup_interface_name_of_type(p, keyfile) ==
    fixup_interface_name(
        p,
        IF p[NM_SETTING_CONNECTION_TYPE] = NULL THEN NULL
        ELSE g_key_file_get_string(keyfile, p[NM_SETTING_CONNECTION_TYPE],
                                   NM_SETTING_CONNECTION_INTERFACE_NAME))

\* nm_keyfile_read, "if (keyfile_name && !nm_setting_connection_get_uuid ...)"
fixup_uuid(p, keyfile_name) ==
    IF keyfile_name # NULL /\ p[NM_SETTING_CONNECTION_UUID] = NULL
    THEN [p EXCEPT ![NM_SETTING_CONNECTION_UUID] =
                       uuid_generate_from_strings(keyfile_name)]
    ELSE p

\* the id set from the file name whatever the file gave
fixup_id_overwriting(p, keyfile_name) ==
    IF keyfile_name # NULL
    THEN [p EXCEPT ![NM_SETTING_CONNECTION_ID] = g_path_get_basename(keyfile_name)]
    ELSE p

\* nm_keyfile_read, "if (keyfile_name && !nm_setting_connection_get_id ...)"
fixup_id(p, keyfile_name) ==
    IF keyfile_name # NULL /\ p[NM_SETTING_CONNECTION_ID] = NULL
    THEN [p EXCEPT ![NM_SETTING_CONNECTION_ID] = g_path_get_basename(keyfile_name)]
    ELSE p

fixup_setting(s_con, keyfile, keyfile_name) ==
    [s_con EXCEPT !.props =
         fixup_interface_name_of_type(fixup_uuid(fixup_id(@, keyfile_name), keyfile_name),
                                      keyfile)]

fixup_connection_at(connection, k, keyfile, keyfile_name) ==
    [connection EXCEPT ![k] = fixup_setting(@, keyfile, keyfile_name)]

connection_with_s_con(connection) ==
    IF setting_index(connection, NM_SETTING_CONNECTION_SETTING_NAME) = 0
    THEN nm_connection_add_setting(connection,
                                   g_object_new(NM_SETTING_CONNECTION_SETTING_NAME))
    ELSE connection

with_s_con_index(connection, keyfile, keyfile_name) ==
    fixup_connection_at(connection,
                        setting_index(connection, NM_SETTING_CONNECTION_SETTING_NAME),
                        keyfile, keyfile_name)

\* the part of nm_keyfile_read after the loop over the groups, up to the
\* VPN secrets: the connection setting with the id, the uuid and the
\* interface name filled in
read_fixup_connection(connection, keyfile, keyfile_name) ==
    with_s_con_index(connection_with_s_con(connection), keyfile, keyfile_name)

(***************************************************************************)
(* The state machine.  A connection is written by nm_keyfile_write, one    *)
(* property per step, and the keyfile it returns is read by                *)
(* nm_keyfile_read, one group per step; or a keyfile that some file held   *)
(* is read.                                                                *)
(***************************************************************************)
VARIABLES
    pc,            \* the position: "write", "write_loop", "read", "read_loop", "done"
    connection,    \* the connection given to nm_keyfile_write
    keyfile,       \* the keyfile given to nm_keyfile_read
    keyfile_name,  \* the keyfile_name given to nm_keyfile_read, or NULL
    handler,       \* whether nm_keyfile_read is given a read handler
    vetoes,        \* the invocations on which the read handler sets the error
    whandler,      \* the write handler given to nm_keyfile_write
    current_dir,   \* g_get_current_dir () of the process
    winfo,         \* the KeyfileWriterInfo
    wpos,          \* the setting and the property the enumeration is at
    wresult,       \* what nm_keyfile_write returned: "none" yet, "keyfile", "NULL"
    info,          \* the KeyfileReaderInfo
    groups,        \* g_key_file_get_groups (keyfile)
    gi,            \* the loop index i of nm_keyfile_read, from 1
    vpn_secrets,   \* the local vpn_secrets of nm_keyfile_read
    result         \* what nm_keyfile_read returned

vars == << pc, connection, keyfile, keyfile_name, handler, vetoes, whandler, current_dir, winfo, wpos,
           wresult, info, groups, gi, vpn_secrets, result >>

\* no write handler; a write handler handles the invocations in handled
\* itself and sets the error on the invocations in errors
NoWriteHandler == [h |-> FALSE, handled |-> {}, errors |-> {}]

NoWriterInfo ==
    [connection |-> << >>, keyfile |-> EmptyKeyFile, error |-> 0, handler |-> FALSE,
     handled |-> {}, errors |-> {}, ncalls |-> 0, log |-> << >>,
     current_dir |-> CurrentDir]

NoReaderInfo ==
    [keyfile |-> EmptyKeyFile, base_dir |-> NULL, handler |-> FALSE, vetoes |-> {}, error |-> 0,
     live |-> {},
     ncalls |-> 0, log |-> << >>, group |-> NULL, setting |-> NoSetting,
     connection |-> << >>]

NoResult == [returned |-> FALSE, connection |-> << >>, error |-> 0]

\* the state before the call of nm_keyfile_write (mode "write") or of
\* nm_keyfile_read (mode "read")
InitWithEnvironment(mode, c, kf, name, h, v, wh, cwd) ==
    /\ pc = mode
    /\ whandler = wh
    /\ current_dir = cwd
    /\ connection = c
    /\ keyfile = kf
    /\ keyfile_name = name
    /\ handler = h
    /\ vetoes = v
    /\ winfo = NoWriterInfo
    /\ wpos = [si |-> 1, pi |-> 1]
    /\ wresult = "none"
    /\ info = NoReaderInfo
    /\ groups = << >>
    /\ gi = 1
    /\ vpn_secrets = FALSE
    /\ result = NoResult

InitWith(mode, c, kf, name, h, v) ==
    InitWithEnvironment(mode, c, kf, name, h, v, NoWriteHandler, CurrentDir)

\* nm_keyfile_write up to the enumeration: a connection that does not verify
\* is refused
nm_keyfile_write_begin ==
    /\ pc = "write"
    /\ IF ~ nm_connection_verify(connection)
       THEN /\ wresult' = "NULL"
            /\ pc' = "done"
            /\ UNCHANGED winfo
       ELSE /\ winfo' = [NoWriterInfo EXCEPT !.connection = connection,
                                             !.handler = whandler.h,
                                             !.handled = whandler.handled,
                                             !.errors = whandler.errors,
                                             !.current_dir = current_dir]
            /\ pc' = "write_loop"
            /\ UNCHANGED wresult
    /\ UNCHANGED << connection, keyfile, keyfile_name, handler, vetoes, whandler, current_dir, wpos, info,
                    groups, gi, vpn_secrets, result >>

\* one callback of nm_connection_for_each_setting_value: write_setting_value
\* on the next property of the next setting
write_setting_value_at(setting, props) ==
    /\ winfo' = write_setting_value(winfo, setting, props[wpos.pi].name)
    /\ wpos' = IF wpos.pi < Len(props)
               THEN [wpos EXCEPT !.pi = @ + 1]
               ELSE [si |-> wpos.si + 1, pi |-> 1]

write_setting_value_step ==
    /\ pc = "write_loop"
    /\ wpos.si <= Len(connection)
    /\ write_setting_value_at(connection[wpos.si],
                              SettingProperties(connection[wpos.si].name))
    /\ UNCHANGED << pc, connection, keyfile, keyfile_name, handler, vetoes, whandler, current_dir, wresult,
                    info, groups, gi, vpn_secrets, result >>

\* nm_keyfile_write after the enumeration; the keyfile it returns is the
\* one given to nm_keyfile_read
nm_keyfile_write_end ==
    /\ pc = "write_loop"
    /\ wpos.si > Len(connection)
    /\ IF winfo.error # 0
       THEN /\ wresult' = "NULL"
            /\ pc' = "done"
            /\ UNCHANGED keyfile
       ELSE /\ wresult' = "keyfile"
            /\ keyfile' = winfo.keyfile
            /\ pc' = "read"
    /\ UNCHANGED << connection, keyfile_name, handler, vetoes, whandler, current_dir, winfo, wpos, info,
                    groups, gi, vpn_secrets, result >>

\* the base_dir of nm_keyfile_read when none is given
nm_keyfile_read_base_dir(name, cwd) ==
    IF name # NULL /\ name # << >> /\ name[1] = 47
    THEN g_path_get_dirname(name)
    ELSE cwd

\* nm_keyfile_read up to the loop over the groups
nm_keyfile_read_begin ==
    /\ pc = "read"
    /\ info' = [NoReaderInfo EXCEPT !.keyfile = keyfile,
                                    !.base_dir = nm_keyfile_read_base_dir(keyfile_name, current_dir),
                                    !.handler = handler,
                                    !.vetoes = vetoes,
                                    !.live = {Live_groups},
                                    !.connection = nm_simple_connection_new]
    /\ groups' = [i \in 1..Len(keyfile) |-> keyfile[i].name]
    /\ gi' = 1
    /\ vpn_secrets' = FALSE
    /\ pc' = "read_loop"
    /\ UNCHANGED << connection, keyfile, keyfile_name, handler, vetoes, whandler, current_dir, winfo, wpos,
                    wresult, result >>

\* one iteration of the loop of nm_keyfile_read over the groups
\* the iteration without the test of info.error after read_setting
read_group_done_unchecked(i1, setting) ==
    /\ info' = IF setting.name # NULL
               THEN released([i1 EXCEPT !.connection = nm_connection_add_setting(@, setting)],
                             Live_setting)
               ELSE i1
    /\ gi' = gi + 1
    /\ UNCHANGED << pc, vpn_secrets, result >>

read_group_done(i1, setting) ==
    IF i1.error # 0
    THEN /\ info' = i1
         /\ result' = [returned |-> TRUE, connection |-> << >>, error |-> i1.error]
         /\ pc' = "done"
         /\ UNCHANGED << gi, vpn_secrets >>
    ELSE /\ info' = IF setting.name # NULL
                    THEN released([i1 EXCEPT !.connection =
                                                 nm_connection_add_setting(@, setting)],
                                  Live_setting)
                    ELSE i1
         /\ gi' = gi + 1
         /\ UNCHANGED << pc, vpn_secrets, result >>

read_group_setting(r) == read_group_done([r.info EXCEPT !.group = NULL], r.setting)

read_group_step ==
    /\ pc = "read_loop"
    /\ gi <= Len(groups)
    /\ IF groups[gi] = NM_KEYFILE_GROUP_VPN_SECRETS
       THEN /\ vpn_secrets' = TRUE
            /\ gi' = gi + 1
            /\ UNCHANGED << pc, info, result >>
       ELSE read_group_setting(read_setting([info EXCEPT !.group = groups[gi]]))
    /\ UNCHANGED << connection, keyfile, keyfile_name, handler, vetoes, whandler, current_dir, winfo, wpos,
                    wresult, groups >>

\* nm_keyfile_read after the loop over the groups
nm_keyfile_read_return(c) ==
    /\ info' = released([info EXCEPT !.connection = c], Live_groups)
    /\ result' = [returned |-> TRUE, connection |-> c, error |-> 0]

\* the end of nm_keyfile_read: the secrets of the VPN setting are read
\* when the group vpn-secrets was seen and there is a VPN setting
nm_keyfile_read_vpn_secrets(c, kf, seen, k) ==
    IF seen /\ k # 0
    THEN [c EXCEPT ![k] = read_vpn_secrets(kf, @)]
    ELSE c

nm_keyfile_read_end ==
    /\ pc = "read_loop"
    /\ gi > Len(groups)
    /\ nm_keyfile_read_return(
           nm_keyfile_read_vpn_secrets(
               read_fixup_connection(info.connection, keyfile, keyfile_name),
               keyfile, vpn_secrets,
               setting_index(info.connection, NM_SETTING_VPN_SETTING_NAME)))
    /\ pc' = "done"
    /\ UNCHANGED << connection, keyfile, keyfile_name, handler, vetoes, whandler, current_dir, winfo, wpos,
                    wresult, groups, gi, vpn_secrets >>

Next ==
    \/ nm_keyfile_write_begin
    \/ write_setting_value_step
    \/ nm_keyfile_write_end
    \/ nm_keyfile_read_begin
    \/ read_group_step
    \/ nm_keyfile_read_end

(***************************************************************************)
(* Initial states.                                                         *)
(***************************************************************************)
set_prop(setting, key, value) == [setting EXCEPT !.props[key] = value]

\* a connection setting that verifies
BaseConnection ==
    set_prop(g_object_new(NM_SETTING_CONNECTION_SETTING_NAME),
             NM_SETTING_CONNECTION_ID, Str(<<"a">>))

Group(name, entries) == [name |-> name, entries |-> entries]
Entry(key, value) == [key |-> key, value |-> value]

\* read handlers: none, or one that vetoes the invocations in v
Handlers(maxcalls) ==
    {[h |-> FALSE, v |-> {}]} \cup {[h |-> TRUE, v |-> v] : v \in SUBSET (1..maxcalls)}

KeyfileName == Str(<<"/", "e", "/", "f">>)

RECURSIVE SeqsUpTo(_, _)
SeqsUpTo(S, n) ==
    IF n = 0 THEN {<< >>}
    ELSE LET T == SeqsUpTo(S, n - 1)
         IN  T \cup {Append(t, x) : t \in {u \in T : Len(u) = n - 1}, x \in S}

\* --- scalar properties of the wireless setting ---------------------------
MaxSsidLen == 3

SsidBytes == {0, 32, 49, 59, 92, 97, 200}

Ssid_16_17 == Str(<<"1", "6", ";", "1", "7", ";">>)

SsidValues == (SeqsUpTo(SsidBytes, MaxSsidLen) \ {<< >>}) \cup {Ssid_16_17}

WirelessWith(key, value) ==
    << BaseConnection, set_prop(g_object_new(NM_SETTING_WIRELESS_SETTING_NAME), key, value) >>

\* values of keys as a file may hold them
RawScalarValues ==
    { Str(<<"5">>), Str(<<"-", "1">>), Str(<<"x">>), << >>, Ssid_16_17,
      Str(<<"a", "\\", ";", "b">>), Str(<<"1", " ", ";", "2", ";">>),
      Str(<<"3", "0", "0", ";">>) }

InitScalar ==
    \E p \in Handlers(1) :
        \/ \E v \in 0..G_MAXUINT32 :
               InitWith("write", WirelessWith(NM_SETTING_WIRELESS_MTU, v), EmptyKeyFile,
                        NULL, p.h, p.v)
        \/ \E b \in SsidValues :
               InitWith("write", WirelessWith(NM_SETTING_WIRELESS_SSID, b), EmptyKeyFile,
                        NULL, p.h, p.v)
        \/ \E raw \in RawScalarValues, key \in {NM_SETTING_WIRELESS_MTU,
                                                NM_SETTING_WIRELESS_SSID} :
               InitWith("read", << >>, << Group(Alias_wifi, << Entry(key, raw) >>) >>,
                        KeyfileName, p.h, p.v)
        \/ InitWith("write", << g_object_new(NM_SETTING_WIRELESS_SETTING_NAME) >>,
                    EmptyKeyFile, NULL, p.h, p.v)

SpecScalar == InitScalar /\ [][Next]_vars

\* --- addresses and routes ------------------------------------------------
MaxAddrs == 2
MaxRoutes == 2

Range(q) == {q[i] : i \in 1..Len(q)}

\* the sequences of SeqsUpTo(S, n) without a repeated element
DistinctSeqs(S, n) ==
    {q \in SeqsUpTo(S, n) : \A i, j \in 1..Len(q) : i # j => q[i] # q[j]}

IPAddress(addr, prefix) ==
    [kind |-> "address", addr |-> addr, prefix |-> prefix, gw |-> NULL,
     metric |-> -1, attrs |-> << >>]

IPRoute(dest, prefix, next_hop, metric) ==
    [kind |-> "route", addr |-> dest, prefix |-> prefix, gw |-> next_hop,
     metric |-> metric, attrs |-> << >>]

Families == {AF_INET, AF_INET6}

family_setting(family) ==
    IF family = AF_INET THEN NM_SETTING_IP4_CONFIG_SETTING_NAME
    ELSE NM_SETTING_IP6_CONFIG_SETTING_NAME

Addr_1(family) ==
    IF family = AF_INET THEN Str(<<"1", ".", "1", ".", "1", ".", "1">>)
    ELSE Str(<<"f", "e", "8", "0", ":", ":", "1">>)

Addr_2(family) ==
    IF family = AF_INET THEN Str(<<"2", ".", "2", ".", "2", ".", "2">>)
    ELSE Str(<<"f", "e", "8", "0", ":", ":", "2">>)

Gateway_1(family) ==
    IF family = AF_INET THEN Str(<<"9", ".", "9", ".", "9", ".", "1">>)
    ELSE Str(<<"f", "e", "8", "0", ":", ":", "9", "1">>)

Gateway_2(family) ==
    IF family = AF_INET THEN Str(<<"9", ".", "9", ".", "9", ".", "2">>)
    ELSE Str(<<"f", "e", "8", "0", ":", ":", "9", "2">>)

Gateway_3(family) ==
    IF family = AF_INET THEN Str(<<"9", ".", "9", ".", "9", ".", "3">>)
    ELSE Str(<<"f", "e", "8", "0", ":", ":", "9", "3">>)

Dest_1(family) ==
    IF family = AF_INET THEN Str(<<"3", ".", "3", ".", "0", ".", "0">>)
    ELSE Str(<<"f", "d", "0", "0", ":", ":">>)

AddressItems(family) ==
    { IPAddress(Addr_1(family), 24), IPAddress(Addr_2(family), max_prefix(family)),
      IPAddress(Addr_2(family), 0) }

RouteItems(family) ==
    { IPRoute(Dest_1(family), 16, NULL, -1),
      IPRoute(Dest_1(family), 16, NULL, 0),
      IPRoute(Dest_1(family), 1, NULL, G_MAXUINT32),
      IPRoute(Dest_1(family), max_prefix(family), Gateway_2(family), -1),
      IPRoute(Dest_1(family), 8, Gateway_2(family), 7) }

\* an IP setting with addresses, a gateway and routes
IPSettingWith(family, addresses, gateway, routes) ==
    set_prop(set_prop(set_prop(g_object_new(family_setting(family)),
                               NM_SETTING_IP_CONFIG_ADDRESSES, addresses),
                      NM_SETTING_IP_CONFIG_GATEWAY, gateway),
             NM_SETTING_IP_CONFIG_ROUTES, routes)

\* the prefix length of the route lines
RoutePrefix(family) == IF family = AF_INET THEN 16 ELSE 64

\* a route line of a file: a destination with a prefix length, a gateway
\* field gwf and a metric field metricf (NULL: none)
RouteLine(family, gwf, metricf) ==
    Dest_1(family) \o << 47 >> \o fmt_unsigned(RoutePrefix(family)) \o << 44 >> \o gwf
        \o (IF metricf = NULL THEN << >> ELSE << 44 >> \o metricf)

\* route lines whose gateway field is the number n
RouteLineInputs ==
    [family : Families, n : {0, 50, G_MAXUINT32}, metricf : {NULL, Str(<<"7">>)}]

\* route lines whose gateway field is no number in the range of a metric
OtherGatewayFields(family) ==
    { Gateway_1(family), Str(<<"5", ".", "5">>), fmt_unsigned(G_MAXUINT32 + 1), << >> }

Key_route1 == BaseName_route \o Str(<<"1">>)
Key_address1 == BaseName_address \o Str(<<"1">>)
Key_address2 == BaseName_address \o Str(<<"2">>)

RouteKeyfile(family, line) ==
    << Group(family_setting(family), << Entry(Key_route1, line) >>) >>

RouteInputKeyfile(x) ==
    RouteKeyfile(x.family, RouteLine(x.family, fmt_unsigned(x.n), x.metricf))

\* files with two addresses, each with or without a gateway field, in either
\* order in the file, and with or without a gateway key
AddressInputs ==
    [family : Families, first : {1, 2},
     g1 : {"none", "g1"}, g2 : {"none", "g2"}, gk : {"none", "gk"}]

gateway_named(family, g) ==
    CASE g = "g1" -> Gateway_1(family)
      [] g = "g2" -> Gateway_2(family)
      [] g = "gk" -> Gateway_3(family)
      [] OTHER    -> NULL

AddressLine(addr, gateway) ==
    addr \o Str(<<"/", "2", "4">>) \o (IF gateway = NULL THEN << >> ELSE << 44 >> \o gateway)

AddressInputKeyfile(x) ==
    << Group(family_setting(x.family),
             (IF x.gk = "none" THEN << >>
              ELSE << Entry(NM_SETTING_IP_CONFIG_GATEWAY, gateway_named(x.family, x.gk)) >>)
             \o (IF x.first = 1
                 THEN << Entry(Key_address1,
                               AddressLine(Addr_1(x.family), gateway_named(x.family, x.g1))),
                         Entry(Key_address2,
                               AddressLine(Addr_2(x.family), gateway_named(x.family, x.g2))) >>
                 ELSE << Entry(Key_address2,
                               AddressLine(Addr_2(x.family), gateway_named(x.family, x.g2))),
                         Entry(Key_address1,
                               AddressLine(Addr_1(x.family), gateway_named(x.family, x.g1))) >>)) >>

InitIP ==
    \/ \E family \in Families, gateway \in {0, 1}, veto \in SUBSET {1} :
           \E addresses \in DistinctSeqs(AddressItems(family), MaxAddrs) \ {<< >>},
              routes \in DistinctSeqs(RouteItems(family), MaxRoutes) :
               InitWith("write",
                        << BaseConnection,
                           IPSettingWith(family, addresses,
                                         IF gateway = 1 THEN Gateway_1(family) ELSE NULL,
                                         routes) >>,
                        EmptyKeyFile, NULL, TRUE, veto)
    \/ \E p \in Handlers(1) :
           \/ \E x \in RouteLineInputs :
                  InitWith("read", << >>, RouteInputKeyfile(x), KeyfileName, p.h, p.v)
           \/ \E family \in Families, metricf \in {NULL, Str(<<"7">>)} :
                \E gwf \in OtherGatewayFields(family) :
                  InitWith("read", << >>,
                           RouteKeyfile(family, RouteLine(family, gwf, metricf)),
                           KeyfileName, p.h, p.v)
           \/ \E x \in AddressInputs :
                  InitWith("read", << >>, AddressInputKeyfile(x), KeyfileName, p.h, p.v)
           \/ InitWith("write", << g_object_new(NM_SETTING_IP4_CONFIG_SETTING_NAME) >>,
                       EmptyKeyFile, NULL, p.h, p.v)

SpecIP == InitIP /\ [][Next]_vars

\* --- secrets and default values ------------------------------------------
Text_k == Str(<<"k">>)
Text_p == Str(<<"p", ";", " ">>)
Method_auto == Str(<<"a", "u", "t", "o">>)

SecretFlags ==
    {NM_SETTING_SECRET_FLAG_NONE, NM_SETTING_SECRET_FLAG_AGENT_OWNED,
     NM_SETTING_SECRET_FLAG_NOT_SAVED}

WirelessSecurityWith(key_mgmt, psk, psk_flags) ==
    set_prop(set_prop(set_prop(g_object_new(NM_SETTING_WIRELESS_SECURITY_SETTING_NAME),
                               NM_SETTING_WIRELESS_SECURITY_KEY_MGMT, key_mgmt),
                      NM_SETTING_WIRELESS_SECURITY_PSK, psk),
             NM_SETTING_WIRELESS_SECURITY_PSK_FLAGS, psk_flags)

VlanWith(flags, id) ==
    set_prop(set_prop(g_object_new(NM_SETTING_VLAN_SETTING_NAME),
                      NM_SETTING_VLAN_FLAGS, flags),
             NM_SETTING_VLAN_ID, id)

IP6With(addr_gen_mode, method) ==
    set_prop(set_prop(g_object_new(NM_SETTING_IP6_CONFIG_SETTING_NAME),
                      NM_SETTING_IP6_CONFIG_ADDR_GEN_MODE, addr_gen_mode),
             NM_SETTING_IP_CONFIG_METHOD, method)

InitWrite ==
    \E h \in BOOLEAN :
        \/ \E type \in {NULL, NM_SETTING_WIRELESS_SETTING_NAME},
              key_mgmt \in {NULL, Text_k}, psk \in {NULL, Text_p},
              psk_flags \in SecretFlags,
              flags \in {0, NM_VLAN_FLAG_REORDER_HEADERS, 2}, id \in {0, 5},
              addr_gen_mode \in {NM_SETTING_IP6_CONFIG_ADDR_GEN_MODE_EUI64,
                                 NM_SETTING_IP6_CONFIG_ADDR_GEN_MODE_STABLE_PRIVACY},
              method \in {NULL, Method_auto} :
               InitWith("write",
                        << set_prop(BaseConnection, NM_SETTING_CONNECTION_TYPE, type),
                           WirelessSecurityWith(key_mgmt, psk, psk_flags),
                           VlanWith(flags, id),
                           IP6With(addr_gen_mode, method) >>,
                        EmptyKeyFile, NULL, h, {})
        \/ InitWith("write", << VlanWith(0, 5) >>, EmptyKeyFile, NULL, h, {})

SpecWrite == InitWrite /\ [][Next]_vars

\* --- certificates ---------------------------------------------------------
MaxWriteCalls == 2

\* write handlers: none, or one that handles some of its first
\* maxcalls invocations itself and sets the error on some
WriteHandlers(maxcalls) ==
    {NoWriteHandler}
    \cup {[h |-> TRUE, handled |-> a, errors |-> e] :
              a \in SUBSET (1..maxcalls), e \in SUBSET (1..maxcalls)}

\* the value of a certificate property for the path
CertPath(path) == NM_KEYFILE_CERT_SCHEME_PREFIX_PATH \o path \o << 0 >>

Path_relative == Str(<<"a", ".", "p", "e", "m">>)
Path_relative_dir == Str(<<"d", "/", "k">>)
Path_exists == Str(<<"/", "e", "/", "c", ".", "p", "e", "m">>)
Path_absolute == Str(<<"/", "x">>)

\* a current directory whose name is not UTF-8
CurrentDir_latin1 == << 47, 255 >>

Cert_pkcs11 == NM_KEYFILE_CERT_SCHEME_PREFIX_PKCS11 \o Str(<<"a">>) \o << 0 >>
Cert_blob == << 1, 2, 250 >>

CaCertValues ==
    {NULL, Cert_pkcs11, Cert_blob}
    \cup {CertPath(p) : p \in {Path_relative, Path_relative_dir, Path_exists,
                               Path_absolute}}

ClientCertValues == {NULL, CertPath(Path_absolute), CertPath(Str(<<"k">>))}

Setting8021xWith(ca_cert, client_cert) ==
    set_prop(set_prop(g_object_new(NM_SETTING_802_1X_SETTING_NAME),
                      NM_SETTING_802_1X_CA_CERT, ca_cert),
             NM_SETTING_802_1X_CLIENT_CERT, client_cert)

InitCert ==
    \E wh \in WriteHandlers(MaxWriteCalls), cwd \in {CurrentDir, CurrentDir_latin1} :
        \/ \E ca_cert \in CaCertValues, client_cert \in ClientCertValues :
               InitWithEnvironment("write",
                                   << BaseConnection,
                                      Setting8021xWith(ca_cert, client_cert) >>,
                                   EmptyKeyFile, KeyfileName, TRUE, {}, wh, cwd)
        \/ InitWithEnvironment("write",
                               << Setting8021xWith(CertPath(Path_absolute), NULL) >>,
                               EmptyKeyFile, KeyfileName, TRUE, {}, wh, cwd)

SpecCert == InitCert /\ [][Next]_vars

\* --- the values of byte array keys ---------------------------------------------
MaxValueLen == 4

\* a blank, digits, the semicolon, the backslash and a letter
ValueChars == {32, 50, 53, 59, 92, 97}

\* values with a number above 255, with four digits, with blanks around
\* the numbers and between the digits, with a tab, and one that is no UTF-8
LongValues ==
    { Str(<<"2", "5", "6", ";">>), Str(<<"2", "2", "2", "2", ";">>),
      Str(<<" ", "0", "0", "7", " ", ";", " ", "2", "5", "5", ";", " ">>),
      Str(<<"2", " ", "5", ";", "2", ";">>),
      << 9, 50, 59 >>, Str(<<"2", ";", "a", "\\", ";">>), << 200 >> }

KeyValues == SeqsUpTo(ValueChars, MaxValueLen) \cup LongValues

\* the two uses of get_bytes: the SSID (not zero terminated, unescaped)
\* and a certificate (zero terminated, not unescaped)
BytesKeys ==
    { [group |-> Alias_wifi, setting |-> NM_SETTING_WIRELESS_SETTING_NAME,
       key |-> NM_SETTING_WIRELESS_SSID],
      [group |-> NM_SETTING_802_1X_SETTING_NAME,
       setting |-> NM_SETTING_802_1X_SETTING_NAME,
       key |-> NM_SETTING_802_1X_CA_CERT] }

InitBytes ==
    \/ \E k \in BytesKeys, value \in KeyValues :
           InitWith("read", << >>, << Group(k.group, << Entry(k.key, value) >>) >>,
                    KeyfileName, TRUE, {})
    \/ \E k \in BytesKeys :
           InitWith("read", << >>, << Group(k.group, << >>) >>, KeyfileName, TRUE, {})
    \/ InitWith("write", << BaseConnection >>, EmptyKeyFile, KeyfileName, TRUE, {})

SpecBytes == InitBytes /\ [][Next]_vars

\* --- certificate values without a scheme ---------------------------------------
\* the list of integers of the bytes
IntegerList(bytes) == fmt_integer_list(bytes)

\* names with each of the extensions, with an extension in capitals, with
\* the letters of an extension, of a file that exists and of none, with
\* directories, and lists of integers for a path, for bytes that are no
\* UTF-8 and for a NUL before a slash
BareCertValues ==
    { Str(<<"a">>) \o certext[i] : i \in 1..Len(certext) }
    \cup { Str(<<"c", ".", "p", "e", "m">>), Str(<<"a", ".", "P", "E", "M">>),
           Str(<<"a", "p", "e", "m">>), Str(<<"a", ".", "p", "e">>),
           Str(<<"n">>), Str(<<"m">>), Str(<<"/", "x">>), Str(<<"d", "/", "k">>),
           Str(<<"d", "/">>), Str(<<"/", "e", "/", "n">>),
           IntegerList(Str(<<"/", "a">>)), IntegerList(<< 200, 47 >>),
           IntegerList(<< 97, 0, 47 >>), IntegerList(<< 1, 2 >>),
           IntegerList(Str(<<"n">>)) }

CertKeyfile(value) ==
    << Group(NM_SETTING_802_1X_SETTING_NAME,
             << Entry(NM_SETTING_802_1X_CA_CERT, value) >>) >>

InitBareCert ==
    \/ \E p \in Handlers(1), value \in BareCertValues :
           InitWith("read", << >>, CertKeyfile(value), KeyfileName, p.h, p.v)
    \/ InitWith("write", << BaseConnection >>, EmptyKeyFile, KeyfileName, TRUE, {})

SpecBareCert == InitBareCert /\ [][Next]_vars

\* --- address and route keys ---------------------------------------------------
MaxKeys == 3

\* keys that are processed, in ascending order of (index, kind, key):
\* address (-1, 0), addresses (-1, 1), address0 (0, 0), address1 (1, 0),
\* addresses1 (1, 1), addresses2 (2, 1), address<G_MAXINT32>
KeysInOrder ==
    << BaseName_address,
       BaseName_addresses,
       BaseName_address \o Str(<<"0">>),
       BaseName_address \o Str(<<"1">>),
       BaseName_addresses \o Str(<<"1">>),
       BaseName_addresses \o Str(<<"2">>),
       BaseName_address \o fmt_unsigned(G_MAXINT32) >>

\* keys that are no address keys: a leading zero, an index that does not
\* fit, a letter after the index, the options of a key, a text before the
\* base name
KeysNotMatched ==
    << BaseName_address \o Str(<<"0", "1">>),
       BaseName_address \o fmt_unsigned(G_MAXINT32 + 1),
       BaseName_address \o Str(<<"1", "x">>),
       options_key(BaseName_address \o Str(<<"1">>)),
       Str(<<"x">>) \o BaseName_address >>

AddressKeys == KeysInOrder \o KeysNotMatched

\* every key has an address of its own: 1.1.1.<j> for the j-th key
KeyAddress(j) == Str(<<"1", ".", "1", ".", "1", ".">>) \o fmt_unsigned(j)

KeyEntry(j) == Entry(AddressKeys[j], KeyAddress(j) \o Str(<<"/", "2", "4">>))

Key_route1_options == options_key(Key_route1)

\* a route under route1 and a text that is no route under route1_options
RouteKeyEntries ==
    << Entry(Key_route1_options, Dest_1(AF_INET) \o Str(<<"/", "8">>)),
       Entry(Key_route1, Dest_1(AF_INET) \o Str(<<"/", "2", "4">>)) >>

\* the files with up to MaxKeys of the keys in any order, with and without
\* the route keys
InitKeys ==
    \/ \E js \in DistinctSeqs(1..Len(AddressKeys), MaxKeys), r \in BOOLEAN :
           InitWith("read", << >>,
                    << Group(NM_SETTING_IP4_CONFIG_SETTING_NAME,
                             [i \in 1..Len(js) |-> KeyEntry(js[i])]
                             \o (IF r THEN RouteKeyEntries ELSE << >>)) >>,
                    KeyfileName, TRUE, {})
    \/ InitWith("write", << BaseConnection >>, EmptyKeyFile, KeyfileName, TRUE, {})

SpecKeys == InitKeys /\ [][Next]_vars

\* --- the fields of an address or route line ----------------------------------
LineHead(family, route) == IF route THEN Dest_1(family) ELSE Addr_1(family)

\* a line with the gateway gw and the metric that it gives
Line(line, gw, metric) == [line |-> line, gw |-> gw, metric |-> metric]

Text_slash == Str(<<"/">>)
Text_comma == Str(<<",">>)
Text_24 == Str(<<"/", "2", "4">>)
Text_7 == Str(<<"7">>)

\* the lines without a prefix length field: address, address/ and
\* address/gateway
NoPrefixLines(family, route) ==
    { Line(LineHead(family, route), NULL, -1),
      Line(LineHead(family, route) \o Text_slash, NULL, -1),
      Line(LineHead(family, route) \o Text_slash \o Gateway_1(family),
           Gateway_1(family), -1) }

\* the lines whose prefix length field is no prefix length: a number that
\* is too large, an empty field, and 0 for a route
BadPrefixLines(family, route) ==
    { Line(LineHead(family, route) \o Text_slash \o fmt_unsigned(max_prefix(family) + 1),
           NULL, -1),
      Line(LineHead(family, route) \o Text_slash \o Text_comma \o Gateway_1(family),
           Gateway_1(family), -1) }
    \cup (IF route
          THEN { Line(LineHead(family, route) \o Text_slash \o Str(<<"0">>), NULL, -1) }
          ELSE {})

\* the lines with a prefix length of 24 that end with a separator
TrailingSeparatorLines(family, route) ==
    { Line(LineHead(family, route) \o Text_24 \o Str(<<";">>), NULL, -1),
      Line(LineHead(family, route) \o Text_24 \o Text_comma \o Gateway_1(family)
               \o Text_comma,
           Gateway_1(family), -1) }
    \cup (IF route
          THEN { Line(LineHead(family, route) \o Text_24 \o Text_comma
                          \o Gateway_1(family) \o Text_comma \o Text_7 \o Text_slash,
                      Gateway_1(family), 7) }
          ELSE {})

\* the fields of a line up to the last one that is expected
FullLine(family, route) ==
    LineHead(family, route) \o Text_24 \o Text_comma \o Gateway_1(family)
        \o (IF route THEN Text_comma \o Text_7 ELSE << >>)

\* the lines with characters after the last field
GarbageLines(family, route) ==
    { Line(FullLine(family, route) \o Text_comma \o Str(<<"9">>), NULL, -1),
      Line(FullLine(family, route) \o Text_comma \o Text_comma, NULL, -1) }

\* the lines with a character that no field has: in the address, in the
\* gateway after a prefix length and without one, in the metric
BadCharacterLines(family, route) ==
    { Line(LineHead(family, route) \o Str(<<"z">>) \o Text_24, NULL, -1),
      Line(LineHead(family, route) \o Text_24 \o Text_comma \o Gateway_1(family)
               \o Str(<<"z">>), NULL, -1),
      Line(LineHead(family, route) \o Str(<<"/", "2", "z">>), NULL, -1) }
    \cup (IF route
          THEN { Line(FullLine(family, route) \o Str(<<"z">>), NULL, -1) }
          ELSE {})

\* the lines that are read as they are
PlainLines(family, route) ==
    { Line(FullLine(family, route), Gateway_1(family), IF route THEN 7 ELSE -1),
      Line(LineHead(family, route) \o Text_24, NULL, -1) }

Lines(family, route) ==
    NoPrefixLines(family, route) \cup BadPrefixLines(family, route)
        \cup TrailingSeparatorLines(family, route) \cup GarbageLines(family, route)
        \cup BadCharacterLines(family, route) \cup PlainLines(family, route)

LineKeyfile(family, route, line) ==
    << Group(family_setting(family),
             << Entry(IF route THEN Key_route1 ELSE Key_address1, line) >>) >>

InitLines ==
    \/ \E family \in Families, route \in BOOLEAN, p \in Handlers(MaxCalls) :
           \E x \in Lines(family, route) :
               InitWith("read", << >>, LineKeyfile(family, route, x.line),
                        KeyfileName, p.h, p.v)
    \/ InitWith("write", << BaseConnection >>, EmptyKeyFile, KeyfileName, TRUE, {})

SpecLines == InitLines /\ [][Next]_vars

\* --- VPN settings -----------------------------------------------------------
Name_p == Str(<<"p">>)
Name_a_eq_b == Str(<<"a", "=", "b">>)
Name_k == Str(<<"k">>)
Text_s == Str(<<"s">>)
Text_t == Str(<<"t">>)
Text_v == Str(<<"v">>)
Text_o == Str(<<"o">>)

SecretsValues == SUBSET {StrDictEntry(Name_p, Text_s), StrDictEntry(Name_a_eq_b, Text_t)}

\* data items: an item of the service and the secret flags of the secrets
DataValues ==
    {d \cup f \cup g :
        d \in SUBSET {StrDictEntry(Name_k, Text_v)},
        f \in {{}} \cup {{StrDictEntry(Name_p \o Suffix_flags, fmt_unsigned(n))} :
                              n \in {NM_SETTING_SECRET_FLAG_NONE,
                                     NM_SETTING_SECRET_FLAG_AGENT_OWNED}},
        g \in {{}, {StrDictEntry(Name_a_eq_b \o Suffix_flags,
                                 fmt_unsigned(NM_SETTING_SECRET_FLAG_NOT_SAVED))}}}

VpnWith(service_type, data, secrets) ==
    set_prop(set_prop(set_prop(g_object_new(NM_SETTING_VPN_SETTING_NAME),
                               NM_SETTING_VPN_SERVICE_TYPE, service_type),
                      NM_SETTING_VPN_DATA, data),
             NM_SETTING_VPN_SECRETS, secrets)

Group_vpn ==
    Group(NM_SETTING_VPN_SETTING_NAME,
          << Entry(NM_SETTING_VPN_SERVICE_TYPE, Text_o), Entry(Name_k, Text_v) >>)

Group_vpn_secrets == Group(NM_KEYFILE_GROUP_VPN_SECRETS, << Entry(Name_p, Text_s) >>)

\* files with the group vpn-secrets after, before and without the group vpn
VpnKeyfiles ==
    { << Group_vpn, Group_vpn_secrets >>,
      << Group_vpn_secrets, Group_vpn >>,
      << Group_vpn_secrets >>,
      << Group_vpn >> }

InitVpn ==
    \/ \E data \in DataValues, secrets \in SecretsValues, service_type \in {Text_o, NULL} :
           InitWith("write", << BaseConnection, VpnWith(service_type, data, secrets) >>,
                    EmptyKeyFile, KeyfileName, TRUE, {})
    \/ \E kf \in VpnKeyfiles :
           InitWith("read", << >>, kf, KeyfileName, TRUE, {})

SpecVpn == InitVpn /\ [][Next]_vars

\* --- files with and without the identity of the connection ------------------
Text_u == Str(<<"u">>)
Text_i == Str(<<"i">>)
KeyfileName_g == Str(<<"/", "e", "/", "d", "/", "g">>)
KeyfileName_relative == Str(<<"h">>)

KeyfileNames == {NULL, KeyfileName, KeyfileName_g, KeyfileName_relative}

\* the groups [connection] with an id, a uuid, both or neither
ConnectionGroups ==
    {Group(NM_SETTING_CONNECTION_SETTING_NAME, id \o uuid) :
        id \in {<< >>, << Entry(NM_SETTING_CONNECTION_ID, Text_i) >>,
                << Entry(NM_SETTING_CONNECTION_ID, << >>) >>},
        uuid \in {<< >>, << Entry(NM_SETTING_CONNECTION_UUID, Text_u) >>}}

Group_vlan ==
    Group(NM_SETTING_VLAN_SETTING_NAME, << Entry(NM_SETTING_VLAN_ID, Str(<<"1">>)) >>)

IdentityKeyfiles ==
    {EmptyKeyFile, << Group_vlan >>}
    \cup {<< g >> : g \in ConnectionGroups}
    \cup {<< Group_vlan, g >> : g \in ConnectionGroups}

InitIdentity ==
    \/ \E kf \in IdentityKeyfiles, name \in KeyfileNames, h \in BOOLEAN :
           InitWith("read", << >>, kf, name, h, {})
    \/ \E id \in {NULL, Text_i} :
           InitWith("write",
                    << set_prop(g_object_new(NM_SETTING_CONNECTION_SETTING_NAME),
                                NM_SETTING_CONNECTION_ID, id) >>,
                    EmptyKeyFile, KeyfileName, TRUE, {})

SpecIdentity == InitIdentity /\ [][Next]_vars

\* --- files that raise warnings -------------------------------------------
MaxGroups == 2

Key_qdisc_a == Prefix_qdisc \o Str(<<"a">>)
Key_qdisc_b == Prefix_qdisc \o Str(<<"b">>)
Key_qdisc_c == Prefix_qdisc \o Str(<<"c">>)
Key_tfilter_a == Prefix_tfilter \o Str(<<"a">>)
Text_fq == Str(<<"f", "q">>)
Text_1 == Str(<<"1">>)
Text_x == Str(<<"x">>)
Group_bogus == Str(<<"b", "o", "g", "u", "s">>)

\* groups as a file may hold them: with values that are not valid
WarnGroups ==
    { Group(NM_SETTING_TC_CONFIG_SETTING_NAME,
            << Entry(Key_qdisc_a, Text_1), Entry(Key_qdisc_b, Text_fq),
               Entry(Key_qdisc_c, Text_1) >>),
      Group(NM_SETTING_TC_CONFIG_SETTING_NAME,
            << Entry(Key_tfilter_a, Text_1), Entry(Key_qdisc_a, Text_fq) >>),
      Group(NM_SETTING_TEAM_SETTING_NAME, << Entry(NM_SETTING_TEAM_CONFIG, Text_x) >>),
      Group(NM_SETTING_IP4_CONFIG_SETTING_NAME,
            << Entry(Key_address1, Str(<<"1", ".", "1", ".", "1", ".", "1", "/", "9", "9">>)),
               Entry(NM_SETTING_IP_CONFIG_DNS,
                     Str(<<"x", ";", "1", ".", "1", ".", "1", ".", "1", ";", "y", ";">>)),
               Entry(Key_route1, RouteLine(AF_INET, Text_1, NULL)) >>),
      Group(NM_SETTING_IP6_CONFIG_SETTING_NAME,
            << Entry(NM_SETTING_IP6_CONFIG_ADDR_GEN_MODE, Text_x),
               Entry(Key_address1, Addr_1(AF_INET6) \o Str(<<"/", "6", "4", ",">>)),
               Entry(Key_route1, RouteLine(AF_INET6, Text_1, NULL)) >>),
      Group(Alias_wifi,
            << Entry(NM_SETTING_WIRELESS_MTU, Str(<<"-", "1">>)),
               Entry(NM_SETTING_WIRELESS_SSID, << >>) >>),
      Group(NM_SETTING_VLAN_SETTING_NAME,
            << Entry(NM_SETTING_VLAN_FLAGS, fmt_unsigned(G_MAXUINT32 + 1)),
               Entry(NM_SETTING_VLAN_ID, Str(<<"-", "5">>)) >>),
      Group(NM_SETTING_CONNECTION_SETTING_NAME,
            << Entry(NM_SETTING_CONNECTION_ID, Text_x),
               Entry(NM_SETTING_CONNECTION_TYPE, Alias_wifi) >>),
      Group(Group_bogus, << Entry(Text_x, Text_1) >>),
      Group(NM_KEYFILE_GROUP_VPN_SECRETS, << Entry(Text_x, Text_1) >>) }

\* the files of up to MaxGroups groups, no two of them with the same name
WarnKeyfiles ==
    {kf \in SeqsUpTo(WarnGroups, MaxGroups) :
         \A i, j \in 1..Len(kf) : i # j => kf[i].name # kf[j].name}

Init ==
    \E p \in Handlers(MaxCalls) :
        \/ \E kf \in WarnKeyfiles :
               InitWith("read", << >>, kf, KeyfileName, p.h, p.v)
        \/ \E v \in {5, G_MAXUINT32} :
               InitWith("write", WirelessWith(NM_SETTING_WIRELESS_MTU, v), EmptyKeyFile,
                        NULL, p.h, p.v)
        \/ InitWith("write", << g_object_new(NM_SETTING_TEAM_SETTING_NAME) >>,
                    EmptyKeyFile, NULL, p.h, p.v)

Spec == Init /\ [][Next]_vars

\* --- files with groups that are no settings ---------------------------------
MaxFileGroups == 3

Group_other == Str(<<"o", "t", "h", "e", "r">>)

\* groups of settings, under the name and under the alias, groups that are
\* no settings and the reserved group
FileGroups ==
    { Group(Alias_wifi, << Entry(NM_SETTING_WIRELESS_MTU, Text_1) >>),
      Group(NM_SETTING_WIRELESS_SETTING_NAME,
            << Entry(NM_SETTING_WIRELESS_MTU, Str(<<"2">>)) >>),
      Group(NM_SETTING_VLAN_SETTING_NAME, << Entry(NM_SETTING_VLAN_ID, Text_1) >>),
      Group(NM_SETTING_CONNECTION_SETTING_NAME,
            << Entry(NM_SETTING_CONNECTION_ID, Text_x) >>),
      Group(Group_bogus, << Entry(Text_x, Text_1) >>),
      Group(Group_other, << >>),
      Group(NM_SETTING_TC_CONFIG_SETTING_NAME, << >>),
      Group(NM_KEYFILE_GROUP_VPN_SECRETS, << Entry(Text_x, Text_1) >>) }

GroupKeyfiles ==
    {kf \in SeqsUpTo(FileGroups, MaxFileGroups) :
         \A i, j \in 1..Len(kf) : i # j => kf[i].name # kf[j].name}

InitGroups ==
    \/ \E p \in Handlers(MaxCalls), kf \in GroupKeyfiles :
           InitWith("read", << >>, kf, KeyfileName, p.h, p.v)
    \/ InitWith("write", << BaseConnection >>, EmptyKeyFile, KeyfileName, TRUE, {})

SpecGroups == InitGroups /\ [][Next]_vars

\* --- the maps of the VPN setting and of the bond setting --------------------
Name_m == Str(<<"m">>)
Text_true == Str(<<"t", "r", "u", "e">>)

\* data items: a plain one, one whose name the writer escapes and one named
\* as the property user-name of the setting
MapDataValues ==
    SUBSET {StrDictEntry(Name_k, Text_v), StrDictEntry(Name_a_eq_b, Text_t),
            StrDictEntry(NM_SETTING_VPN_USER_NAME, Text_u)}

BondWith(options) ==
    set_prop(g_object_new(NM_SETTING_BOND_SETTING_NAME), NM_SETTING_BOND_OPTIONS, options)

BondOptionValues == SUBSET {StrDictEntry(Name_m, Text_1), StrDictEntry(Name_k, Text_v)}

\* the keys a group vpn is made of: keys of declared properties and others
VpnGroupEntries ==
    << Entry(NM_SETTING_VPN_SERVICE_TYPE, Text_o),
       Entry(Name_k, Text_v),
       Entry(NM_SETTING_VPN_USER_NAME, Text_u),
       Entry(nm_keyfile_key_encode(Name_a_eq_b), Text_t),
       Entry(NM_SETTING_VPN_PERSISTENT, Text_true),
       Entry(NM_SETTING_NAME, Text_x) >>

BondGroupEntries ==
    << Entry(NM_SETTING_CONNECTION_INTERFACE_NAME, Text_i),
       Entry(Name_m, Text_1),
       Entry(nm_keyfile_key_encode(Name_a_eq_b), Text_t) >>

\* the entries of es at the positions in chosen, in the order of es
EntriesAt(es, chosen) == SelectSeq(es, LAMBDA e : \E j \in chosen : es[j] = e)

\* the most keys of a group
MaxMapKeys == 3

Choices(es) == {chosen \in SUBSET (1..Len(es)) : Cardinality(chosen) \in 1..MaxMapKeys}

MapKeyfiles ==
    { << Group(NM_SETTING_VPN_SETTING_NAME, EntriesAt(VpnGroupEntries, chosen)) >> :
          chosen \in Choices(VpnGroupEntries) }
    \cup
    { << Group(NM_SETTING_BOND_SETTING_NAME, EntriesAt(BondGroupEntries, chosen)) >> :
          chosen \in Choices(BondGroupEntries) }

InitMaps ==
    \/ \E data \in MapDataValues, service_type \in {Text_o, NULL}, user_name \in {Text_s, NULL} :
           InitWith("write",
                    << BaseConnection,
                       set_prop(VpnWith(service_type, data, {}),
                                NM_SETTING_VPN_USER_NAME, user_name) >>,
                    EmptyKeyFile, KeyfileName, TRUE, {})
    \/ \E options \in BondOptionValues :
           InitWith("write", << BaseConnection, BondWith(options) >>,
                    EmptyKeyFile, KeyfileName, TRUE, {})
    \/ \E kf \in MapKeyfiles :
           InitWith("read", << >>, kf, KeyfileName, TRUE, {})

SpecMaps == InitMaps /\ [][Next]_vars

\* --- lists of DNS servers -----------------------------------------------------
MaxDnsLen == 3

OtherFamily(family) == IF family = AF_INET THEN AF_INET6 ELSE AF_INET

\* two addresses of the family, one of the other family and one of none
DnsElements(family) ==
    {Addr_1(family), Addr_2(family), Addr_1(OtherFamily(family)), Text_x}

DnsLists(family) == SeqsUpTo(DnsElements(family), MaxDnsLen) \ {<< >>}

\* the value of the key: every element followed by the list separator
RECURSIVE DnsValue(_)
DnsValue(list) ==
    IF list = << >> THEN << >> ELSE list[1] \o << 59 >> \o DnsValue(Tail(list))

DnsKeyfile(family, list) ==
    << Group(family_setting(family), << Entry(NM_SETTING_IP_CONFIG_DNS, DnsValue(list)) >>) >>

InitDns ==
    \/ \E family \in Families, p \in Handlers(MaxCalls) :
           \E list \in DnsLists(family) :
               InitWith("read", << >>, DnsKeyfile(family, list), KeyfileName, p.h, p.v)
    \/ InitWith("write", << BaseConnection >>, EmptyKeyFile, KeyfileName, TRUE, {})

SpecDns == InitDns /\ [][Next]_vars

\* --- the parity of a serial setting -------------------------------------------
Parities ==
    {NM_SETTING_SERIAL_PARITY_NONE, NM_SETTING_SERIAL_PARITY_EVEN, NM_SETTING_SERIAL_PARITY_ODD}

SerialWith(parity) ==
    set_prop(g_object_new(NM_SETTING_SERIAL_SETTING_NAME), NM_SETTING_SERIAL_PARITY, parity)

\* the letters of the three parities
ParityLetters(parity) ==
    CASE parity = NM_SETTING_SERIAL_PARITY_EVEN -> {69, 101}
      [] parity = NM_SETTING_SERIAL_PARITY_ODD  -> {79, 111}
      [] parity = NM_SETTING_SERIAL_PARITY_NONE -> {78, 110}

\* values of the key that name a parity: the code of a letter in decimal
\* and the letter itself
ParityTexts(parity) ==
    {fmt_int(c) : c \in ParityLetters(parity)} \cup {<< c >> : c \in ParityLetters(parity)}

\* values that name none: other numbers, other letters, longer strings
OtherParityTexts ==
    { Str(<<"1">>), Str(<<"2">>), Str(<<"7", "0">>), Str(<<"-", "1">>), Str(<<"X">>),
      Str(<<"x">>), Str(<<"e", "v", "e", "n">>), Str(<<"E", "E">>), Str(<<"6", "9", "x">>) }

ParityKeyfile(text) ==
    << Group(NM_SETTING_SERIAL_SETTING_NAME, << Entry(NM_SETTING_SERIAL_PARITY, text) >>) >>

InitParity ==
    \/ \E parity \in Parities :
           InitWith("write", << BaseConnection, SerialWith(parity) >>,
                    EmptyKeyFile, KeyfileName, TRUE, {})
    \/ \E p \in Handlers(1) :
           \E text \in UNION {ParityTexts(parity) : parity \in Parities} \cup OtherParityTexts :
               InitWith("read", << >>, ParityKeyfile(text), KeyfileName, p.h, p.v)

SpecParity == InitParity /\ [][Next]_vars

\* --- groups with some of the keys of their setting ---------------------------
Text_5 == Str(<<"5">>)
Text_0 == Str(<<"0">>)
Text_69 == Str(<<"6", "9">>)
Text_ab == Str(<<"a", "b">>)
Text_stable_privacy == Str(<<"s", "t", "a", "b", "l", "e", "-", "p", "r", "i", "v", "a", "c", "y">>)

\* the keys of an IPv4 or IPv6 group: the method, an address with a gateway
\* field, a route and a list of DNS servers
IpEntries(family) ==
    << Entry(NM_SETTING_IP_CONFIG_METHOD, Method_auto),
       Entry(Key_address1, Addr_1(family) \o Text_24 \o Text_comma \o Gateway_1(family)),
       Entry(Key_route1, Dest_1(family) \o Text_24),
       Entry(NM_SETTING_IP_CONFIG_DNS, Addr_2(family) \o << 59 >>) >>

SettingEntries(setting_name) ==
    CASE setting_name = NM_SETTING_IP4_CONFIG_SETTING_NAME -> IpEntries(AF_INET)
      [] setting_name = NM_SETTING_IP6_CONFIG_SETTING_NAME ->
             IpEntries(AF_INET6)
                 \o << Entry(NM_SETTING_IP6_CONFIG_ADDR_GEN_MODE, Text_stable_privacy) >>
      [] setting_name = NM_SETTING_WIRELESS_SETTING_NAME ->
             << Entry(NM_SETTING_WIRELESS_MTU, Text_5),
                Entry(NM_SETTING_WIRELESS_SSID, Text_ab) >>
      [] setting_name = NM_SETTING_SERIAL_SETTING_NAME ->
             << Entry(NM_SETTING_SERIAL_PARITY, Text_69),
                Entry(NM_SETTING_SERIAL_BITS, Text_5) >>
      [] setting_name = NM_SETTING_VPN_SETTING_NAME ->
             << Entry(NM_SETTING_VPN_SERVICE_TYPE, Text_o), Entry(Name_k, Text_v) >>
      [] setting_name = NM_SETTING_BOND_SETTING_NAME ->
             << Entry(NM_SETTING_CONNECTION_INTERFACE_NAME, Text_i), Entry(Name_m, Text_1) >>
      [] setting_name = NM_SETTING_VLAN_SETTING_NAME ->
             << Entry(NM_SETTING_VLAN_ID, Text_5), Entry(NM_SETTING_VLAN_FLAGS, Text_0) >>

SettingsRead ==
    {NM_SETTING_IP4_CONFIG_SETTING_NAME, NM_SETTING_IP6_CONFIG_SETTING_NAME,
     NM_SETTING_WIRELESS_SETTING_NAME, NM_SETTING_SERIAL_SETTING_NAME,
     NM_SETTING_VPN_SETTING_NAME, NM_SETTING_BOND_SETTING_NAME, NM_SETTING_VLAN_SETTING_NAME}

\* a group of the setting with any of its keys, none included
SomeKeysOf(setting_name) ==
    { << Group(setting_name, EntriesAt(SettingEntries(setting_name), chosen)) >> :
          chosen \in SUBSET (1..Len(SettingEntries(setting_name))) }

SomeKeysKeyfiles == UNION {SomeKeysOf(setting_name) : setting_name \in SettingsRead}

InitSomeKeys ==
    \/ \E kf \in SomeKeysKeyfiles, p \in Handlers(1) :
           InitWith("read", << >>, kf, KeyfileName, p.h, p.v)
    \/ InitWith("write", << BaseConnection >>, EmptyKeyFile, KeyfileName, TRUE, {})

SpecSomeKeys == InitSomeKeys /\ [][Next]_vars

\* --- values and groups that fill the buffers of the reader --------------------
MaxListLen == 5

\* blanks, digits and the list separator
ListChars == {32, 50, 53, 59}

ListValues == SeqsUpTo(ListChars, MaxListLen) \ {<< >>}

MaxBufferKeys == 2

InitBuffers ==
    \/ \E value \in ListValues \cup LongValues :
           InitWith("read", << >>,
                    << Group(NM_SETTING_WIRELESS_SETTING_NAME,
                             << Entry(NM_SETTING_WIRELESS_SSID, value) >>) >>,
                    KeyfileName, TRUE, {})
    \/ \E js \in DistinctSeqs(1..Len(AddressKeys), MaxBufferKeys), r \in BOOLEAN :
           InitWith("read", << >>,
                    << Group(NM_SETTING_IP4_CONFIG_SETTING_NAME,
                             (IF r THEN RouteKeyEntries ELSE << >>)
                             \o [i \in 1..Len(js) |-> KeyEntry(js[i])]) >>,
                    KeyfileName, TRUE, {})
    \/ InitWith("write", << BaseConnection >>, EmptyKeyFile, KeyfileName, TRUE, {})

SpecBuffers == InitBuffers /\ [][Next]_vars

(***************************************************************************)
(* What the claims are stated about.                                       *)
(***************************************************************************)
has_setting(c, setting_name) == setting_index(c, setting_name) # 0

\* the value of a property of a setting that the connection has
property_of(c, setting_name, key) == c[setting_index(c, setting_name)].props[key]

\* nm_keyfile_write returned a keyfile and nm_keyfile_read has returned from
\* reading it
RoundTripDone == pc = "done" /\ wresult = "keyfile" /\ result.returned

\* nm_keyfile_read returned a connection with the setting
ReadBack(setting_name) ==
    result.returned /\ result.error = 0 /\ has_setting(result.connection, setting_name)

\* the handler was given a warning for the property
Warned(key) == \E i \in 1..Len(info.log) : info.log[i].ev = "warn" /\ info.log[i].key = key

\* C9: for every uint32 property (the mtu of the wireless setting) and every
\* value v that is not the default, reading the keyfile that the writer
\* produced sets the property to v and raises no warning.
C9_UintRoundTrip ==
    ( /\ RoundTripDone
      /\ has_setting(connection, NM_SETTING_WIRELESS_SETTING_NAME)
      /\ property_of(connection, NM_SETTING_WIRELESS_SETTING_NAME,
                     NM_SETTING_WIRELESS_MTU) # 0 )
    => /\ ReadBack(NM_SETTING_WIRELESS_SETTING_NAME)
       /\ property_of(result.connection, NM_SETTING_WIRELESS_SETTING_NAME,
                      NM_SETTING_WIRELESS_MTU)
              = property_of(connection, NM_SETTING_WIRELESS_SETTING_NAME,
                            NM_SETTING_WIRELESS_MTU)
       /\ ~ Warned(NM_SETTING_WIRELESS_MTU)

\* a value from 2^(WordBits-1) on came back with a warning for the property
C9_Divergence ==
    /\ RoundTripDone
    /\ has_setting(connection, NM_SETTING_WIRELESS_SETTING_NAME)
    /\ property_of(connection, NM_SETTING_WIRELESS_SETTING_NAME,
                   NM_SETTING_WIRELESS_MTU) > G_MAXINT32
    /\ Warned(NM_SETTING_WIRELESS_MTU)

\* the SSID that was given to the writer
ssid_given == property_of(connection, NM_SETTING_WIRELESS_SETTING_NAME,
                          NM_SETTING_WIRELESS_SSID)

\* the text that the keyfile holds for the SSID
ssid_text == nm_keyfile_plugin_kf_get_string(keyfile, NM_SETTING_WIRELESS_SETTING_NAME,
                                             NM_SETTING_WIRELESS_SSID)

SsidRoundTripDone ==
    /\ RoundTripDone
    /\ has_setting(connection, NM_SETTING_WIRELESS_SETTING_NAME)
    /\ ssid_given # NULL

\* C10: a non-empty SSID that is written and read back is the same bytes;
\* an all-printable SSID is written as a text in which every semicolon
\* follows a backslash that the writer added, an SSID with a byte that is not
\* printable as a list of as many integers as the SSID has bytes.
C10_SsidRoundTrip ==
    SsidRoundTripDone
    => /\ ReadBack(NM_SETTING_WIRELESS_SETTING_NAME)
       /\ property_of(result.connection, NM_SETTING_WIRELESS_SETTING_NAME,
                      NM_SETTING_WIRELESS_SSID) = ssid_given
       /\ ~ Warned(NM_SETTING_WIRELESS_SSID)
       /\ all_printable(ssid_given)
          => /\ \A i \in 1..Len(ssid_text) :
                    ssid_text[i] = 59 => i > 1 /\ ssid_text[i - 1] = 92
             /\ Len(ssid_text) = Len(ssid_given)
                    + Cardinality({i \in 1..Len(ssid_given) : ssid_given[i] = 59})
       /\ ~ all_printable(ssid_given)
          => /\ \A i \in 1..Len(ssid_text) :
                    g_ascii_isdigit(ssid_text[i]) \/ ssid_text[i] = 59
             /\ Cardinality({i \in 1..Len(ssid_text) : ssid_text[i] = 59})
                    = Len(ssid_given)

\* the SSID "16;17;" came back as its six bytes
C10_Witness ==
    /\ SsidRoundTripDone
    /\ ssid_given = Ssid_16_17
    /\ ReadBack(NM_SETTING_WIRELESS_SETTING_NAME)
    /\ Len(property_of(result.connection, NM_SETTING_WIRELESS_SETTING_NAME,
                       NM_SETTING_WIRELESS_SSID)) = 6

\* the value that was given to the writer for a property of the IP setting
ip_given(family, key) == property_of(connection, family_setting(family), key)

\* the value that the reader returned for a property of the IP setting
ip_read(family, key) == property_of(result.connection, family_setting(family), key)

NoWarning == \A i \in 1..Len(info.log) : info.log[i].ev # "warn"

IPRoundTripDone(family) ==
    /\ RoundTripDone
    /\ has_setting(connection, family_setting(family))
    /\ Len(ip_given(family, NM_SETTING_IP_CONFIG_ADDRESSES)) >= 1

\* C5: an IPv4 or IPv6 setting with at least one address, with or without a
\* gateway, and with routes (prefix from 1, with or without next hop, metric
\* -1 or from 0 to the greatest unsigned word) that is written and read back
\* has the same addresses, the same gateway and the same routes, in the same
\* order, and no warning is raised.
C5_IPRoundTrip ==
    \A family \in Families :
        IPRoundTripDone(family)
        => /\ ReadBack(family_setting(family))
           /\ ip_read(family, NM_SETTING_IP_CONFIG_ADDRESSES)
                  = ip_given(family, NM_SETTING_IP_CONFIG_ADDRESSES)
           /\ ip_read(family, NM_SETTING_IP_CONFIG_GATEWAY)
                  = ip_given(family, NM_SETTING_IP_CONFIG_GATEWAY)
           /\ ip_read(family, NM_SETTING_IP_CONFIG_ROUTES)
                  = ip_given(family, NM_SETTING_IP_CONFIG_ROUTES)
           /\ NoWarning

\* two addresses, a gateway and two routes, one of them without next hop and
\* with the greatest metric, came back
C5_Witness ==
    /\ IPRoundTripDone(AF_INET6)
    /\ Len(ip_given(AF_INET6, NM_SETTING_IP_CONFIG_ADDRESSES)) = 2
    /\ ip_given(AF_INET6, NM_SETTING_IP_CONFIG_GATEWAY) # NULL
    /\ Len(ip_given(AF_INET6, NM_SETTING_IP_CONFIG_ROUTES)) = 2
    /\ IPRoute(Dest_1(AF_INET6), 1, NULL, G_MAXUINT32)
           = ip_given(AF_INET6, NM_SETTING_IP_CONFIG_ROUTES)[2]
    /\ ReadBack(family_setting(AF_INET6))
    /\ ip_read(AF_INET6, NM_SETTING_IP_CONFIG_ROUTES)
           = ip_given(AF_INET6, NM_SETTING_IP_CONFIG_ROUTES)

\* the keys that the keyfile holds in the group of the IP setting
ip_keys(family) ==
    Range(nm_keyfile_plugin_kf_get_keys(keyfile, family_setting(family)))

\* the text that the keyfile holds for a key of the group of the IP setting
ip_line(family, key) ==
    nm_keyfile_plugin_kf_get_string(keyfile, family_setting(family), key)

IndexedKeys(base_name, n) == {base_name \o fmt_int(i) : i \in 1..n}

\* the fields of the line written for the i-th route
route_fields(family, i) == split_at(ip_line(family, BaseName_route \o fmt_int(i)), 44)

IPWritten(family) ==
    wresult = "keyfile" /\ has_setting(connection, family_setting(family))

\* C6: for n addresses the writer writes exactly the keys address1 to
\* addressn, and for m routes route1 to routem, no line ends in a separator,
\* a line with a second field has an address there, and the line of a route
\* with a metric has three fields: the next hop, or the unspecified address
\* of the family when the route has none, before the metric.
C6_CanonicalEncoding ==
    \A family \in Families :
        IPWritten(family)
        => /\ {k \in ip_keys(family) : g_str_has_prefix(k, BaseName_address)}
                  = IndexedKeys(BaseName_address,
                                Len(ip_given(family, NM_SETTING_IP_CONFIG_ADDRESSES)))
           /\ {k \in ip_keys(family) : g_str_has_prefix(k, BaseName_route)}
                  = IndexedKeys(BaseName_route,
                                Len(ip_given(family, NM_SETTING_IP_CONFIG_ROUTES)))
           /\ \A k \in ip_keys(family) :
                  /\ ip_line(family, k) # << >>
                  /\ ip_line(family, k)[Len(ip_line(family, k))] \notin {44, 59, 47, 32}
           /\ \A i \in 1..Len(ip_given(family, NM_SETTING_IP_CONFIG_ROUTES)) :
                  /\ Len(route_fields(family, i)) \in 1..3
                  /\ Len(route_fields(family, i)) >= 2
                         => nm_utils_ipaddr_valid(family, route_fields(family, i)[2])
                  /\ ip_given(family, NM_SETTING_IP_CONFIG_ROUTES)[i].metric # -1
                         => /\ Len(route_fields(family, i)) = 3
                            /\ route_fields(family, i)[2]
                                   = IF ip_given(family, NM_SETTING_IP_CONFIG_ROUTES)[i].gw
                                          = NULL
                                     THEN addr_any(family)
                                     ELSE ip_given(family, NM_SETTING_IP_CONFIG_ROUTES)[i].gw
                            /\ route_fields(family, i)[3]
                                   = fmt_unsigned(
                                         ip_given(family, NM_SETTING_IP_CONFIG_ROUTES)[i].metric)

\* a route without next hop and with a metric was written with the
\* unspecified address as its second field
C6_Witness ==
    /\ IPWritten(AF_INET)
    /\ Len(ip_given(AF_INET, NM_SETTING_IP_CONFIG_ADDRESSES)) = 2
    /\ ip_given(AF_INET, NM_SETTING_IP_CONFIG_ROUTES)
           = << IPRoute(Dest_1(AF_INET), 16, NULL, 0) >>
    /\ route_fields(AF_INET, 1)[2] = addr_any(AF_INET)

\* the route line whose gateway field is a number was read
RouteInputRead(x) ==
    pc = "done" /\ wresult = "none" /\ keyfile = RouteInputKeyfile(x)

\* C7: an IPv6 route line without metric field whose gateway field is a
\* number from 0 to the greatest unsigned word gives the route with that
\* number as metric and without next hop, without a warning; for IPv4, or
\* with a metric field, the line gives a WARN and no route.
C7_GatewayRecovery ==
    \A x \in RouteLineInputs :
        RouteInputRead(x)
        => IF x.family = AF_INET6 /\ x.metricf = NULL
           THEN /\ ReadBack(family_setting(x.family))
                /\ ip_read(x.family, NM_SETTING_IP_CONFIG_ROUTES)
                       = << IPRoute(Dest_1(x.family), RoutePrefix(x.family), NULL, x.n) >>
                /\ NoWarning
           ELSE /\ handler
                       => \E i \in 1..Len(info.log) :
                              /\ info.log[i].ev = "warn"
                              /\ info.log[i].key = NM_SETTING_IP_CONFIG_ROUTES
                              /\ info.log[i].sev = NM_KEYFILE_WARN_SEVERITY_WARN
                /\ result.error = 0
                       => /\ ReadBack(family_setting(x.family))
                          /\ ip_read(x.family, NM_SETTING_IP_CONFIG_ROUTES) = << >>

\* the line fd00::/64,50 gave the route with metric 50
C7_Witness ==
    /\ RouteInputRead([family |-> AF_INET6, n |-> 50, metricf |-> NULL])
    /\ ReadBack(family_setting(AF_INET6))
    /\ ip_read(AF_INET6, NM_SETTING_IP_CONFIG_ROUTES)[1].metric = 50

AddressInputRead(x) ==
    /\ pc = "done"
    /\ wresult = "none"
    /\ keyfile = AddressInputKeyfile(x)
    /\ ReadBack(family_setting(x.family))

\* the addresses of the address inputs in the order of their keys
AddressesInKeyOrder(family) ==
    << IPAddress(Addr_1(family), 24), IPAddress(Addr_2(family), 24) >>

\* C8 as stated: the gateway of the setting is the gateway field of the
\* first address in the order of the keys, or the value of the gateway key
\* when there is one.
C8_GatewayOfFirstAddress ==
    \A x \in AddressInputs :
        AddressInputRead(x)
        => /\ ip_read(x.family, NM_SETTING_IP_CONFIG_ADDRESSES)
                  = AddressesInKeyOrder(x.family)
           /\ ip_read(x.family, NM_SETTING_IP_CONFIG_GATEWAY)
                  = IF x.gk # "none" THEN gateway_named(x.family, x.gk)
                    ELSE gateway_named(x.family, x.g1)

\* C8 as amended: the gateway of the setting is the gateway field of the
\* first address, in the order of the keys, that has a gateway field, or the
\* value of the gateway key when there is one.
C8_GatewayOfFirstAddressWithGateway ==
    \A x \in AddressInputs :
        AddressInputRead(x)
        => /\ ip_read(x.family, NM_SETTING_IP_CONFIG_ADDRESSES)
                  = AddressesInKeyOrder(x.family)
           /\ ip_read(x.family, NM_SETTING_IP_CONFIG_GATEWAY)
                  = IF x.gk # "none" THEN gateway_named(x.family, x.gk)
                    ELSE IF x.g1 # "none" THEN gateway_named(x.family, x.g1)
                    ELSE gateway_named(x.family, x.g2)

\* address2 came first in the file and both addresses have a gateway field:
\* the gateway is the one of address1
C8_Witness ==
    /\ AddressInputRead([family |-> AF_INET, first |-> 2, g1 |-> "g1", g2 |-> "g2",
                         gk |-> "none"])
    /\ ip_read(AF_INET, NM_SETTING_IP_CONFIG_GATEWAY) = Gateway_1(AF_INET)

\* the properties of the catalog of the i-th setting given to the writer
given_properties(i) == Range(SettingProperties(connection[i].name))

\* the keyfile that nm_keyfile_write returned holds the key for the property
\* of the i-th setting
key_written(i, key) == nm_keyfile_plugin_kf_has_key(keyfile, connection[i].name, key)

\* C3: in the keyfile that nm_keyfile_write returns, a secret property of a
\* setting other than the VPN setting has no key when its secret flags are
\* not "none", and has its key when the flags are "none" and the value is
\* not the default.
C3_SecretsByFlags ==
    wresult = "keyfile"
    => \A i \in 1..Len(connection) :
           \A p \in given_properties(i) :
               ( /\ NM_SETTING_PARAM_SECRET \in p.flags
                 /\ connection[i].name # NM_SETTING_VPN_SETTING_NAME )
               => /\ nm_setting_get_secret_flags(connection[i], p.name)
                         # NM_SETTING_SECRET_FLAG_NONE
                     => ~ key_written(i, p.name)
                  /\ ( /\ nm_setting_get_secret_flags(connection[i], p.name)
                              = NM_SETTING_SECRET_FLAG_NONE
                       /\ connection[i].props[p.name] # p.default )
                     => /\ key_written(i, p.name)
                        /\ nm_keyfile_plugin_kf_get_string(keyfile, connection[i].name,
                                                           p.name)
                               = connection[i].props[p.name]

\* a psk that is agent-owned was left out of a keyfile that holds the other
\* keys of the setting
C3_Witness ==
    /\ wresult = "keyfile"
    /\ connection[2] = WirelessSecurityWith(Text_k, Text_p,
                                            NM_SETTING_SECRET_FLAG_AGENT_OWNED)
    /\ ~ key_written(2, NM_SETTING_WIRELESS_SECURITY_PSK)
    /\ key_written(2, NM_SETTING_WIRELESS_SECURITY_KEY_MGMT)
    /\ key_written(2, NM_SETTING_WIRELESS_SECURITY_PSK_FLAGS)

\* the properties whose entry in parse_infos sets writer_persist_default
PersistDefault ==
    { << NM_SETTING_IP6_CONFIG_SETTING_NAME, NM_SETTING_IP6_CONFIG_ADDR_GEN_MODE >>,
      << NM_SETTING_VLAN_SETTING_NAME, NM_SETTING_VLAN_FLAGS >> }

Vetoes == {i \in 1..Len(info.log) : info.log[i].ev = "warn" /\ info.log[i].veto}

FirstVeto == CHOOSE i \in Vetoes : \A j \in Vetoes : i <= j

\* C1: when the handler has set the error on a warning of nm_keyfile_read,
\* nm_keyfile_read returns no connection and the error that the handler set
\* first.
C1_VetoReturnsError ==
    (result.returned /\ Vetoes # {})
    => /\ result.connection = << >>
       /\ result.error = info.log[FirstVeto].n

\* the warning for a negative mtu was vetoed, in the second group of a file,
\* and nm_keyfile_read returned the error and no connection
C1_Witness ==
    /\ result.returned
    /\ Len(keyfile) = 2
    /\ keyfile[2].name = Alias_wifi
    /\ Vetoes # {}
    /\ info.log[FirstVeto].key = NM_SETTING_WIRELESS_MTU
    /\ result.error = info.log[FirstVeto].n
    /\ result.connection = << >>

\* C2: once the handler has set the error on a warning, it is not called
\* again and no property is set: the vetoed warning is the last event of the
\* read.
C2_ShortCircuit ==
    \A i \in Vetoes : i = Len(info.log)

\* the handler was called again after it had vetoed a warning of the
\* qdiscs, and the property was set after that
C2_Divergence ==
    /\ Vetoes # {}
    /\ \E i, j \in 1..Len(info.log) :
           /\ FirstVeto < i
           /\ i < j
           /\ info.log[i].ev = "warn"
           /\ info.log[j].ev = "set"
           /\ info.log[j].key = NM_SETTING_TC_CONFIG_QDISCS

\* the path of a certificate value of the path scheme, made absolute as
\* the writer does it
cert_absolute_path(value) ==
    IF cert_path_func(value)[1] = 47 THEN cert_path_func(value)
    ELSE current_dir \o << 47 >> \o cert_path_func(value)

\* the certificate properties of the i-th setting that hold a path and for
\* which nm_keyfile_write wrote a key
CertPathsWritten(i) ==
    {k \in {NM_SETTING_802_1X_CA_CERT, NM_SETTING_802_1X_CLIENT_CERT} :
         /\ nm_setting_802_1x_check_cert_scheme(connection[i].props[k])
                = NM_SETTING_802_1X_CK_SCHEME_PATH
         /\ key_written(i, k)}

\* the text of the key as written, of whatever encoding
cert_written(i, k) ==
    g_key_file_parse_value_as_string(
        nm_keyfile_plugin_kf_get_value(keyfile, connection[i].name, k))

vpn_given(key) == property_of(connection, NM_SETTING_VPN_SETTING_NAME, key)
vpn_read(key) == property_of(result.connection, NM_SETTING_VPN_SETTING_NAME, key)

\* the secrets of the given VPN setting whose flags are none
SavedSecrets ==
    {e \in vpn_given(NM_SETTING_VPN_SECRETS) :
        nm_setting_get_secret_flags(
            connection[setting_index(connection, NM_SETTING_VPN_SETTING_NAME)], e.key)
        = NM_SETTING_SECRET_FLAG_NONE}

\* the entries of a group of the keyfile nm_keyfile_write returned, their
\* keys decoded
written_entries(group) ==
    Let(kf_entries(keyfile, group),
        LAMBDA es : {StrDictEntry(nm_keyfile_key_decode(es[j].key),
                                  g_key_file_parse_value_as_string(es[j].value)) :
                         j \in 1..Len(es)})

VpnRoundTripDone ==
    /\ RoundTripDone
    /\ has_setting(connection, NM_SETTING_VPN_SETTING_NAME)

\* C12: the secrets of a VPN setting whose flags are none are written under
\* the group vpn-secrets and none in the group vpn, a secret with other
\* flags is not written at all, and when all flags are none reading the
\* keyfile gives a secrets map equal to the original, names included.
C12_VpnSecretsRoundTrip ==
    VpnRoundTripDone
    => /\ written_entries(NM_KEYFILE_GROUP_VPN_SECRETS) = SavedSecrets
       /\ \A e \in vpn_given(NM_SETTING_VPN_SECRETS) :
              e.key \notin strdict_keys(written_entries(NM_SETTING_VPN_SETTING_NAME))
       /\ ( SavedSecrets = vpn_given(NM_SETTING_VPN_SECRETS)
            => /\ ReadBack(NM_SETTING_VPN_SETTING_NAME)
               /\ vpn_read(NM_SETTING_VPN_SECRETS) = vpn_given(NM_SETTING_VPN_SECRETS) )

\* the secret a=b with the flags none is written as a\3Db and read back
\* under the name a\3Db
C12_Divergence ==
    /\ VpnRoundTripDone
    /\ SavedSecrets = vpn_given(NM_SETTING_VPN_SECRETS)
    /\ StrDictEntry(Name_a_eq_b, Text_t) \in vpn_given(NM_SETTING_VPN_SECRETS)
    /\ ReadBack(NM_SETTING_VPN_SETTING_NAME)
    /\ StrDictEntry(nm_keyfile_key_encode(Name_a_eq_b), Text_t)
           \in vpn_read(NM_SETTING_VPN_SECRETS)
    /\ Name_a_eq_b \notin strdict_keys(vpn_read(NM_SETTING_VPN_SECRETS))

\* nm_keyfile_read was called on a keyfile that some file held and returned
\* a connection
ReadSucceeded == pc = "done" /\ result.returned /\ result.error = 0

\* the value of a key of the group [connection] of the file, NULL when the
\* file has no such key
connection_in_file(key) ==
    nm_keyfile_plugin_kf_get_string(keyfile, NM_SETTING_CONNECTION_SETTING_NAME, key)

connection_read(key) ==
    property_of(result.connection, NM_SETTING_CONNECTION_SETTING_NAME, key)

\* C13: after a successful nm_keyfile_read the result has a connection
\* setting; an id or uuid of the file is kept; with a keyfile_name an absent
\* id is the basename of keyfile_name and an absent uuid is a function of
\* keyfile_name alone, so that id and uuid are both present; without a
\* keyfile_name an absent id or uuid stays absent.
C13_IdentityFixups ==
    ReadSucceeded
    => /\ has_setting(result.connection, NM_SETTING_CONNECTION_SETTING_NAME)
       /\ connection_read(NM_SETTING_CONNECTION_ID) =
              ( IF connection_in_file(NM_SETTING_CONNECTION_ID) # NULL
                THEN connection_in_file(NM_SETTING_CONNECTION_ID)
                ELSE IF keyfile_name # NULL THEN g_path_get_basename(keyfile_name)
                ELSE NULL )
       /\ connection_read(NM_SETTING_CONNECTION_UUID) =
              ( IF connection_in_file(NM_SETTING_CONNECTION_UUID) # NULL
                THEN connection_in_file(NM_SETTING_CONNECTION_UUID)
                ELSE IF keyfile_name # NULL THEN uuid_generate_from_strings(keyfile_name)
                ELSE NULL )
       /\ ( keyfile_name # NULL
            => /\ connection_read(NM_SETTING_CONNECTION_ID) # NULL
               /\ connection_read(NM_SETTING_CONNECTION_UUID) # NULL )

\* the file /e/d/g has no group [connection]: the result has a connection
\* setting with the id g and the uuid of /e/d/g
C13_Witness ==
    /\ ReadSucceeded
    /\ keyfile_name = KeyfileName_g
    /\ keyfile = << Group_vlan >>
    /\ has_setting(result.connection, NM_SETTING_CONNECTION_SETTING_NAME)
    /\ connection_read(NM_SETTING_CONNECTION_ID) = Str(<<"g">>)
    /\ connection_read(NM_SETTING_CONNECTION_UUID) = uuid_generate_from_strings(KeyfileName_g)

\* a call of the write handler set the error
WriteHandlerSetError == \E n \in 1..winfo.ncalls : n \in whandler.errors

\* what holds once nm_keyfile_write has returned
WriteReturned ==
    wresult # "none"
    => /\ wresult = "keyfile" <=> (nm_connection_verify(connection) /\ ~ WriteHandlerSetError)
       /\ ~ nm_connection_verify(connection)
             => (wresult = "NULL" /\ winfo.ncalls = 0 /\ winfo.keyfile = EmptyKeyFile)
       /\ WriteHandlerSetError => (wresult = "NULL" /\ winfo.error # 0)

\* C14: nm_keyfile_write returns a keyfile exactly when the connection
\* verifies and no call of the write handler set an error.  When the
\* connection does not verify, the handler is not invoked and no key is
\* written.  Once a call of the handler has set the error, no key is written
\* (not even for the property of that call), the handler is not invoked
\* again, and the keyfile is not handed to the caller.
C14_WriteReturnsKeyfile ==
    [][ /\ WriteReturned'
        /\ winfo'.error # 0 => (winfo'.keyfile = winfo.keyfile /\ keyfile' = keyfile)
        /\ winfo.error # 0 => winfo'.ncalls = winfo.ncalls ]_vars

\* the handler set the error on its first call, for ca-cert: client-cert,
\* which is set, is not written and nm_keyfile_write returned NULL
C14_Witness ==
    /\ wresult = "NULL"
    /\ nm_connection_verify(connection)
    /\ 1 \in whandler.errors
    /\ winfo.ncalls = 1
    /\ winfo.error # 0
    /\ has_setting(connection, NM_SETTING_802_1X_SETTING_NAME)
    /\ property_of(connection, NM_SETTING_802_1X_SETTING_NAME,
                   NM_SETTING_802_1X_CLIENT_CERT) # NULL
    /\ ~ nm_keyfile_plugin_kf_has_key(winfo.keyfile, NM_SETTING_802_1X_SETTING_NAME,
                                      NM_SETTING_802_1X_CLIENT_CERT)

\* the setting name a group stands for
resolved_name(group) ==
    alias_or_group(nm_keyfile_plugin_get_setting_name_for_alias(group), group)

\* the names of the settings that the groups of the file stand for
KnownGroupNames ==
    {resolved_name(keyfile[i].name) : i \in 1..Len(keyfile)}
    \cap {n \in {resolved_name(keyfile[i].name) : i \in 1..Len(keyfile)} :
              nm_setting_lookup_type(n)}

\* the positions of the groups of the file that stand for no setting
UnknownGroups ==
    {i \in 1..Len(keyfile) : ~ nm_setting_lookup_type(resolved_name(keyfile[i].name))}

\* the warnings of read_setting for a group that is no setting: the ones
\* without a property name
GroupWarnings ==
    {i \in 1..Len(info.log) :
        /\ info.log[i].ev = "warn"
        /\ info.log[i].key = NULL
        /\ info.log[i].sev = NM_KEYFILE_WARN_SEVERITY_WARN}

SettingNames(c) == {c[i].name : i \in 1..Len(c)}

\* a keyfile that some file held was read without a veto
FileReadSucceeded == ReadSucceeded /\ wresult = "none"

\* C15 as stated: every group that is no setting raises one WARN and the
\* connection returned has exactly the settings of the groups that are
\* settings, each once.
C15_UnknownGroupSkipped ==
    FileReadSucceeded
    => /\ handler => Cardinality(GroupWarnings) = Cardinality(UnknownGroups)
       /\ SettingNames(result.connection) = KnownGroupNames
       /\ Cardinality(SettingNames(result.connection)) = Len(result.connection)

\* C15, amended: every group that is no setting, but for the reserved
\* group vpn-secrets, raises one WARN when there is a handler, and the
\* connection returned has exactly the settings of the groups that are
\* settings and the connection setting, each once.
C15_UnknownGroupSkippedButReserved ==
    FileReadSucceeded
    => /\ handler =>
              Cardinality(GroupWarnings)
              = Cardinality({i \in UnknownGroups :
                                keyfile[i].name # NM_KEYFILE_GROUP_VPN_SECRETS})
       /\ SettingNames(result.connection)
              = KnownGroupNames \cup {NM_SETTING_CONNECTION_SETTING_NAME}
       /\ Cardinality(SettingNames(result.connection)) = Len(result.connection)

\* the file [wifi] [bogus] [802-11-wireless]: one WARN, and the connection
\* has the wireless setting once, and the connection setting
C15_Witness ==
    /\ FileReadSucceeded
    /\ handler
    /\ [i \in 1..Len(keyfile) |-> keyfile[i].name]
           = << Alias_wifi, Group_bogus, NM_SETTING_WIRELESS_SETTING_NAME >>
    /\ Cardinality(GroupWarnings) = 1
    /\ SettingNames(result.connection)
           = {NM_SETTING_WIRELESS_SETTING_NAME, NM_SETTING_CONNECTION_SETTING_NAME}
    /\ Len(result.connection) = 2

\* the properties of the files of Init that the generic reader reads by
\* their type and that can raise a warning: uint and flags properties
GenericWarnProperties ==
    { << NM_SETTING_WIRELESS_SETTING_NAME, NM_SETTING_WIRELESS_MTU >>,
      << NM_SETTING_VLAN_SETTING_NAME, NM_SETTING_VLAN_ID >>,
      << NM_SETTING_VLAN_SETTING_NAME, NM_SETTING_VLAN_FLAGS >> }

\* the handler was given a warning of severity WARN for the property
WarnedWARN(key) ==
    \E i \in 1..Len(info.log) :
        /\ info.log[i].ev = "warn"
        /\ info.log[i].key = key
        /\ info.log[i].sev = NM_KEYFILE_WARN_SEVERITY_WARN

\* C16: when the generic reader raised a WARN for a property and the handler
\* did not veto it, the value of the file is not in the property: the
\* property is at its default.
C16_WarnDiscardsValue ==
    FileReadSucceeded
    => \A sp \in GenericWarnProperties :
           ( /\ has_setting(result.connection, sp[1])
             /\ WarnedWARN(sp[2]) )
           => property_of(result.connection, sp[1], sp[2])
              = find_property(sp[1], sp[2]).default

\* the file has mtu=-1 in [wifi]: the handler was warned, did not veto,
\* and the mtu of the connection returned is (guint) -1
C16_Divergence ==
    /\ FileReadSucceeded
    /\ nm_keyfile_plugin_kf_get_integer(keyfile, NM_SETTING_WIRELESS_SETTING_NAME,
                                        NM_SETTING_WIRELESS_MTU) = 0 - 1
    /\ WarnedWARN(NM_SETTING_WIRELESS_MTU)
    /\ has_setting(result.connection, NM_SETTING_WIRELESS_SETTING_NAME)
    /\ property_of(result.connection, NM_SETTING_WIRELESS_SETTING_NAME,
                   NM_SETTING_WIRELESS_MTU) = G_MAXUINT32

\* C17: when nm_keyfile_read returns, with a connection or with an error,
\* nothing that the call allocated is still allocated: not the list of the
\* group names, not the array of a tc parser, not a setting under
\* construction; and a setting under construction at a veto is not in the
\* connection.
C17_AllReleased ==
    result.returned
    => /\ info.live = {}
       /\ info.setting = NoSetting
       /\ result.error # 0 => result.connection = << >>

\* the file has a group [tc] without keys: the read succeeded, and the
\* arrays that qdisc_parser and tfilter_parser allocated are not released
C17_Divergence ==
    /\ FileReadSucceeded
    /\ \E i \in 1..Len(keyfile) :
           /\ keyfile[i].name = NM_SETTING_TC_CONFIG_SETTING_NAME
           /\ keyfile[i].entries = << >>
    /\ info.live = {NM_SETTING_TC_CONFIG_QDISCS, NM_SETTING_TC_CONFIG_TFILTERS}

\* the keys of the group [ipv4] of the file
KeysInFile ==
    {keyfile[1].entries[i].key : i \in 1..Len(keyfile[1].entries)}

\* the addresses of the keys of the file that are address keys, in the order
\* of KeysInOrder
RECURSIVE AddressesInOrder(_)
AddressesInOrder(j) ==
    IF j > Len(KeysInOrder) THEN << >>
    ELSE (IF KeysInOrder[j] \in KeysInFile
          THEN << IPAddress(KeyAddress(j), 24) >>
          ELSE << >>) \o AddressesInOrder(j + 1)

KeysRead ==
    /\ FileReadSucceeded
    /\ has_setting(result.connection, NM_SETTING_IP4_CONFIG_SETTING_NAME)

\* C18: the address keys of a group are processed in ascending order of
\* (index, kind, key string) whatever their order in the file, the bare
\* name having the index -1; a key is an address key only when it is the
\* base name alone, with 0, or with a decimal without a leading zero that
\* fits an int; and <key>_options is no route key.
C18_KeyOrder ==
    KeysRead
    => /\ property_of(result.connection, NM_SETTING_IP4_CONFIG_SETTING_NAME,
                      NM_SETTING_IP_CONFIG_ADDRESSES) = AddressesInOrder(1)
       /\ property_of(result.connection, NM_SETTING_IP4_CONFIG_SETTING_NAME,
                      NM_SETTING_IP_CONFIG_ROUTES)
              = ( IF Key_route1 \in KeysInFile
                  THEN << IPRoute(Dest_1(AF_INET), 24, NULL, -1) >>
                  ELSE << >> )
       /\ \A i \in 1..Len(info.log) : info.log[i].ev # "warn"

\* the file has address1, address, addresses2 in this order: the addresses
\* are those of address, address1, addresses2
C18_Witness ==
    /\ KeysRead
    /\ [i \in 1..Len(keyfile[1].entries) |-> keyfile[1].entries[i].key]
           = << KeysInOrder[4], KeysInOrder[1], KeysInOrder[6] >>
    /\ property_of(result.connection, NM_SETTING_IP4_CONFIG_SETTING_NAME,
                   NM_SETTING_IP_CONFIG_ADDRESSES)
           = << IPAddress(KeyAddress(1), 24), IPAddress(KeyAddress(4), 24),
                IPAddress(KeyAddress(6), 24) >>

\* nm_keyfile_read has returned from reading the file with the one line
LineRead(family, route, line) ==
    /\ pc = "done"
    /\ result.returned
    /\ wresult = "none"
    /\ keyfile = LineKeyfile(family, route, line)

\* the number of warnings of a severity that the handler was given
Raised(severity) ==
    Cardinality({i \in 1..Len(info.log) :
                     info.log[i].ev = "warn" /\ info.log[i].sev = severity})

\* the handler has set the error on a warning of the severity
VetoedAt(severity) ==
    \E i \in 1..Len(info.log) :
        info.log[i].ev = "warn" /\ info.log[i].sev = severity /\ info.log[i].veto

Vetoed == \E i \in 1..Len(info.log) : info.log[i].ev = "warn" /\ info.log[i].veto

\* the addresses or the routes that were read
LineItems(family, route) ==
    property_of(result.connection, family_setting(family),
                IF route THEN NM_SETTING_IP_CONFIG_ROUTES
                ELSE NM_SETTING_IP_CONFIG_ADDRESSES)

\* the line gave the one entry with the prefix length plen
LineAccepted(family, route, x, plen) ==
    /\ result.error = 0
    /\ LineItems(family, route)
           = << IF route THEN IPRoute(LineHead(family, route), plen, x.gw, x.metric)
                ELSE IPAddress(LineHead(family, route), plen) >>
    /\ ~ route
       => property_of(result.connection, family_setting(family),
                      NM_SETTING_IP_CONFIG_GATEWAY) = x.gw

\* the line gave no entry
LineDropped(family, route) ==
    IF result.error = 0 THEN LineItems(family, route) = << >>
    ELSE result.connection = << >>

\* the read has failed
LineVetoed == result.error # 0 /\ result.connection = << >>

\* the default prefix lengths: 24 for an IPv4 address, 64 for an IPv6
\* address, 24 for an IPv4 route, 128 for an IPv6 route
DefaultPrefixLength(family, route) ==
    CASE family = AF_INET  /\ ~ route -> 24
      [] family = AF_INET6 /\ ~ route -> 64
      [] family = AF_INET  /\ route   -> 24
      [] family = AF_INET6 /\ route   -> 128

C20_LineShapes ==
    \A family \in Families, route \in BOOLEAN :
        /\ \A x \in TrailingSeparatorLines(family, route) :
               LineRead(family, route, x.line)
               => /\ handler => /\ Raised(NM_KEYFILE_WARN_SEVERITY_INFO) = 1
                                /\ Raised(NM_KEYFILE_WARN_SEVERITY_WARN) = 0
                  /\ IF Vetoed THEN LineVetoed
                     ELSE LineAccepted(family, route, x, 24)
        /\ \A x \in GarbageLines(family, route) \cup BadCharacterLines(family, route) :
               LineRead(family, route, x.line)
               => /\ handler => /\ Raised(NM_KEYFILE_WARN_SEVERITY_WARN) = 1
                                /\ Raised(NM_KEYFILE_WARN_SEVERITY_INFO) = 0
                  /\ LineDropped(family, route)

\* a route with a gateway and a metric that ends with a separator was read
\* with a handler that does not veto: one INFO, and the route is there
C20_Witness ==
    /\ \E x \in TrailingSeparatorLines(AF_INET, TRUE) :
           /\ x.metric = 7
           /\ LineRead(AF_INET, TRUE, x.line)
    /\ handler
    /\ ~ Vetoed
    /\ Raised(NM_KEYFILE_WARN_SEVERITY_INFO) = 1
    /\ LineItems(AF_INET, TRUE)
           = << IPRoute(Dest_1(AF_INET), 24, Gateway_1(AF_INET), 7) >>

\* a text without the blanks at its ends
RECURSIVE Trimmed(_)
Trimmed(t) ==
    IF t # << >> /\ g_ascii_isspace(t[1]) THEN Trimmed(Tail(t))
    ELSE IF t # << >> /\ g_ascii_isspace(t[Len(t)]) THEN Trimmed(SubSeq(t, 1, Len(t) - 1))
    ELSE t

\* a text of one to three digits that is a number up to 255
IsByteText(t) ==
    /\ Len(t) \in 1..3
    /\ \A i \in 1..Len(t) : t[i] \in 48..57
    /\ digits_value(t, 999) <= 255

\* what is before each semicolon of a text, and what is after the last one
Pieces(t) == split_at(t, 59)

\* the text is a list of at least one integer, each of one to three digits,
\* up to 255 and followed by a semicolon, with blanks around the integers
IsIntegerList(t) ==
    /\ \A i \in 1..Len(t) : g_ascii_isspace(t[i]) \/ t[i] \in 48..57 \/ t[i] = 59
    /\ Len(Pieces(t)) >= 2
    /\ Trimmed(Pieces(t)[Len(Pieces(t))]) = << >>
    /\ \A j \in 1..(Len(Pieces(t)) - 1) : IsByteText(Trimmed(Pieces(t)[j]))

IntegerListBytes(t) ==
    [j \in 1..(Len(Pieces(t)) - 1) |-> digits_value(Trimmed(Pieces(t)[j]), 999)]

\* a text without the backslashes that are before a semicolon
RECURSIVE WithoutEscapes(_)
WithoutEscapes(t) ==
    IF t = << >> THEN << >>
    ELSE IF t[1] = 92 /\ Len(t) >= 2 /\ t[2] = 59 THEN WithoutEscapes(Tail(t))
    ELSE << t[1] >> \o WithoutEscapes(Tail(t))

\* the blob of a string value, NULL for no blob
BlobOf(t, zero_terminate, unescape_semicolon) ==
    IF t = NULL THEN NULL
    ELSE IF t = << >> THEN << >>
    ELSE IF IsIntegerList(t) THEN IntegerListBytes(t)
    ELSE (IF unescape_semicolon THEN WithoutEscapes(t) ELSE t)
             \o (IF zero_terminate THEN << 0 >> ELSE << >>)

\* the file that was read has the one group with the setting of k
BytesRead(k) ==
    /\ FileReadSucceeded
    /\ Len(keyfile) = 1
    /\ keyfile[1].name = k.group
    /\ has_setting(result.connection, k.setting)

\* C21: the blob of a key is empty for the empty string, the bytes of the
\* integers for a list of integers of one to three digits up to 255 that are
\* each followed by a semicolon, and else the bytes of the string, without
\* the backslashes before semicolons when asked for and with one NUL after
\* them when asked for; a key that is not there gives no blob.  The SSID
\* is the blob as it is; a certificate is the blob when the blob is not
\* empty, and unset when it is.
C21_GetBytesClasses ==
    \A k \in BytesKeys :
        BytesRead(k)
        => Let(BlobOf(nm_keyfile_plugin_kf_get_string(keyfile, k.group, k.key),
                      k.key = NM_SETTING_802_1X_CA_CERT,
                      k.key = NM_SETTING_WIRELESS_SSID),
               LAMBDA blob :
                   property_of(result.connection, k.setting, k.key)
                       = IF k.key = NM_SETTING_802_1X_CA_CERT /\ blob = << >>
                         THEN NULL ELSE blob)

\* the SSID " 007 ; 255; " was read as the two bytes 7 and 255
C21_Witness ==
    /\ \E k \in BytesKeys :
           /\ k.key = NM_SETTING_WIRELESS_SSID
           /\ BytesRead(k)
           /\ Len(nm_keyfile_plugin_kf_get_string(keyfile, k.group, k.key)) = 12
    /\ property_of(result.connection, NM_SETTING_WIRELESS_SETTING_NAME,
                   NM_SETTING_WIRELESS_SSID) = << 7, 255 >>

\* the certificate value of the file: the blob of the key ca-cert
cert_value ==
    BlobOf(nm_keyfile_plugin_kf_get_string(keyfile, NM_SETTING_802_1X_SETTING_NAME,
                                           NM_SETTING_802_1X_CA_CERT),
           TRUE, FALSE)

\* the value without the NUL at its end
cert_text ==
    IF cert_value[Len(cert_value)] = 0 THEN SubSeq(cert_value, 1, Len(cert_value) - 1)
    ELSE cert_value

\* the certificate that was read
cert_read ==
    property_of(result.connection, NM_SETTING_802_1X_SETTING_NAME,
                NM_SETTING_802_1X_CA_CERT)

BareCertRead ==
    /\ FileReadSucceeded
    /\ keyfile = CertKeyfile(keyfile[1].entries[1].value)
    /\ has_setting(result.connection, NM_SETTING_802_1X_SETTING_NAME)

\* the extensions of certificate files
Extensions ==
    { Str(<<".", "p", "e", "m">>), Str(<<".", "c", "e", "r", "t">>),
      Str(<<".", "c", "r", "t">>), Str(<<".", "c", "e", "r">>),
      Str(<<".", "p", "1", "2">>), Str(<<".", "d", "e", "r">>),
      Str(<<".", "k", "e", "y">>) }

\* the value is UTF-8 of the length of a path and has a slash or one of the
\* extensions
LooksLikePath ==
    /\ Len(cert_value) \in 1..500
    /\ cert_text # << >>
    /\ g_utf8_validate(cert_text)
    /\ \/ \E i \in 1..Len(cert_text) : cert_text[i] = 47
       \/ \E ext \in Extensions : g_str_has_suffix(cert_text, ext)

\* the directory of the keyfile
BaseDir == Str(<<"/", "e">>)

\* what is after the last slash of a text
LastComponent(t) ==
    IF \E i \in 1..Len(t) : t[i] = 47
    THEN SubSeq(t, (CHOOSE i \in 1..Len(t) :
                        t[i] = 47 /\ \A j \in (i + 1)..Len(t) : t[j] # 47) + 1, Len(t))
    ELSE t

\* the file of the last component of a text in the directory of the keyfile
FileInBaseDir(t) ==
    IF LastComponent(t) = << >> THEN BaseDir
    ELSE BaseDir \o Str(<<"/">>) \o LastComponent(t)

TableSettings == [i \in 1..Len(parse_infos) |-> parse_infos[i].setting_name]

\* the names of the properties of the i-th setting of the table, in its order
TableProperties(i) ==
    [j \in 1..Len(parse_infos[i].properties) |->
         parse_infos[i].properties[j].property_name]

\* every name is before the next one in the order of the bytes
StrictlyIncreasing(names) ==
    \A i \in 1..(Len(names) - 1) : strcmp(names[i], names[i + 1]) < 0

\* names of properties: those of the table and some that no setting of the
\* table has
LookupProperties ==
    UNION {{TableProperties(i)[j] : j \in 1..Len(TableProperties(i))} :
               i \in 1..Len(parse_infos)}
    \cup {NM_SETTING_CONNECTION_ID, NM_SETTING_WIRELESS_MTU, << >>, Str(<<"z">>)}

\* names of settings: those of the table and some that are not in it
LookupSettings ==
    {TableSettings[i] : i \in 1..Len(TableSettings)}
    \cup {Alias_wifi, NM_KEYFILE_GROUP_VPN_SECRETS, << >>, Str(<<"z">>)}

\* the table has the property of the setting
InTable(sn, pn) ==
    \E i \in 1..Len(parse_infos) :
        /\ TableSettings[i] = sn
        /\ \E j \in 1..Len(parse_infos[i].properties) : TableProperties(i)[j] = pn

\* C23: the names of the settings of parse_infos are strictly increasing
\* in the order of the bytes, and so are the names of the properties of
\* every setting; _parse_info_find gives the record of a setting and a
\* property that the table has, and nothing for any other pair, also for
\* the properties of the setting that is being read.
C23_TableSorted ==
    /\ \A pn \in DOMAIN info.setting.props :
           IF InTable(info.setting.name, pn)
           THEN _parse_info_find(info.setting.name, pn).property_name = pn
           ELSE _parse_info_find(info.setting.name, pn) = NoParseInfo
    /\ StrictlyIncreasing(TableSettings)
    /\ \A i \in 1..Len(parse_infos) :
           /\ Len(parse_infos[i].properties) >= 1
           /\ StrictlyIncreasing(TableProperties(i))
           /\ \A j \in 1..Len(parse_infos[i].properties) :
                  _parse_info_find(TableSettings[i], TableProperties(i)[j])
                      = parse_infos[i].properties[j]
    /\ \A sn \in LookupSettings, pn \in LookupProperties :
           ~ InTable(sn, pn) => _parse_info_find(sn, pn) = NoParseInfo

\* a file with the group vlan was read: its property flags is found in the
\* table, with writer_persist_default, and its property id is not
C23_Witness ==
    /\ ReadSucceeded
    /\ has_setting(result.connection, NM_SETTING_VLAN_SETTING_NAME)
    /\ _parse_info_find(NM_SETTING_VLAN_SETTING_NAME, NM_SETTING_VLAN_FLAGS)
           .writer_persist_default
    /\ _parse_info_find(NM_SETTING_VLAN_SETTING_NAME, NM_SETTING_VLAN_ID) = NoParseInfo
    /\ _parse_info_find(NM_SETTING_WIMAX_SETTING_NAME, NM_SETTING_WIMAX_MAC_ADDRESS)
           .parser = "mac_address_parser_ETHER"


\* the names of the properties that the VPN setting declares
VpnDeclaredProperties ==
    {NM_SETTING_NAME, NM_SETTING_VPN_DATA, NM_SETTING_VPN_PERSISTENT, NM_SETTING_VPN_SECRETS,
     NM_SETTING_VPN_SERVICE_TYPE, NM_SETTING_VPN_TIMEOUT, NM_SETTING_VPN_USER_NAME}

bond_read(key) == property_of(result.connection, NM_SETTING_BOND_SETTING_NAME, key)

\* a map of strings has one value for a name
IsStrDict(hash) == \A e1 \in hash, e2 \in hash : e1.key = e2.key => e1 = e2

\* after the read of a group vpn the data items are the keys of the group
\* that name no declared property, under their decoded names
VpnDataRead ==
    ( pc = "done" /\ ReadBack(NM_SETTING_VPN_SETTING_NAME) )
    => /\ IsStrDict(vpn_read(NM_SETTING_VPN_DATA))
       /\ vpn_read(NM_SETTING_VPN_DATA)
              = {e \in written_entries(NM_SETTING_VPN_SETTING_NAME) :
                     e.key \notin VpnDeclaredProperties}

\* after the read of a group bond the options are the keys of the group
\* but interface-name
BondOptionsRead ==
    ( pc = "done" /\ ReadBack(NM_SETTING_BOND_SETTING_NAME) )
    => /\ IsStrDict(bond_read(NM_SETTING_BOND_OPTIONS))
       /\ bond_read(NM_SETTING_BOND_OPTIONS)
              = {e \in written_entries(NM_SETTING_BOND_SETTING_NAME) :
                     e.key # NM_SETTING_CONNECTION_INTERFACE_NAME}

\* every data item given to the writer is a data item of the setting read
\* back, with its name and value
VpnDataReadBack ==
    VpnRoundTripDone
    => /\ ReadBack(NM_SETTING_VPN_SETTING_NAME)
       /\ vpn_given(NM_SETTING_VPN_DATA) \subseteq vpn_read(NM_SETTING_VPN_DATA)

\* C24: after the read of a group vpn the data map has exactly one entry,
\* decoded name to value, for every key whose decoded name is no declared
\* property of the VPN setting and none for the others; after the read of a
\* group bond every key but interface-name is a bond option; a VPN data
\* item written by the writer is read back as a data item with the same
\* name and value.
C24_HashOfString == VpnDataRead /\ BondOptionsRead /\ VpnDataReadBack

\* the data item user-name of a setting without user name is written under
\* the key user-name and read back as the property user-name, not as a data
\* item
C24_Divergence ==
    /\ VpnRoundTripDone
    /\ StrDictEntry(NM_SETTING_VPN_USER_NAME, Text_u) \in vpn_given(NM_SETTING_VPN_DATA)
    /\ vpn_given(NM_SETTING_VPN_USER_NAME) = NULL
    /\ ReadBack(NM_SETTING_VPN_SETTING_NAME)
    /\ NM_SETTING_VPN_USER_NAME \notin strdict_keys(vpn_read(NM_SETTING_VPN_DATA))
    /\ vpn_read(NM_SETTING_VPN_USER_NAME) = Text_u

\* the parts of the claim about the reader at work: files with keys of
\* declared properties, an escaped key and interface-name were read
C24_ReadParts ==
    /\ pc = "done" /\ connection = << >>
    /\ \/ /\ ReadBack(NM_SETTING_VPN_SETTING_NAME)
          /\ NM_SETTING_VPN_USER_NAME
                 \in strdict_keys(written_entries(NM_SETTING_VPN_SETTING_NAME))
          /\ StrDictEntry(Name_a_eq_b, Text_t) \in vpn_read(NM_SETTING_VPN_DATA)
       \/ /\ ReadBack(NM_SETTING_BOND_SETTING_NAME)
          /\ NM_SETTING_CONNECTION_INTERFACE_NAME
                 \in strdict_keys(written_entries(NM_SETTING_BOND_SETTING_NAME))
          /\ StrDictEntry(Name_m, Text_1) \in bond_read(NM_SETTING_BOND_OPTIONS)


\* nm_keyfile_read has returned from reading the file with the list of DNS
\* servers
DnsRead(family, list) ==
    /\ pc = "done"
    /\ result.returned
    /\ wresult = "none"
    /\ keyfile = DnsKeyfile(family, list)

ValidDns(family, list) == SelectSeq(list, LAMBDA e : nm_utils_ipaddr_valid(family, e))

InvalidDns(family, list) ==
    Cardinality({i \in 1..Len(list) : ~ nm_utils_ipaddr_valid(family, list[i])})

\* the invocations of the handler for the key dns, all of them warnings of
\* the severity WARN
DnsWarnings ==
    Cardinality({i \in 1..Len(info.log) :
                     /\ info.log[i].ev = "warn"
                     /\ info.log[i].key = NM_SETTING_IP_CONFIG_DNS
                     /\ info.log[i].sev = NM_KEYFILE_WARN_SEVERITY_WARN})

DnsSet ==
    \E i \in 1..Len(info.log) :
        info.log[i].ev = "set" /\ info.log[i].key = NM_SETTING_IP_CONFIG_DNS

\* the last thing the read did was the invocation of the handler that set
\* the error
VetoedLast == info.log[Len(info.log)].ev = "warn" /\ info.log[Len(info.log)].veto

\* C25: reading the key dns of an IPv4 or IPv6 setting, every element that
\* is no address of the family of the setting is dropped with one WARN; when
\* no warning is vetoed the property is set to the valid elements in their
\* order in the list; when a warning is vetoed the property is not set and
\* no element after the one that raised the warning is examined.
C25_DnsList ==
    \A family \in Families : \A list \in DnsLists(family) :
        DnsRead(family, list)
        => IF ~ Vetoed
           THEN /\ result.error = 0
                /\ handler => DnsWarnings = InvalidDns(family, list)
                /\ Raised(NM_KEYFILE_WARN_SEVERITY_WARN) = DnsWarnings
                /\ DnsSet
                /\ property_of(result.connection, family_setting(family),
                               NM_SETTING_IP_CONFIG_DNS) = ValidDns(family, list)
           ELSE /\ result.error # 0
                /\ result.connection = << >>
                /\ ~ DnsSet
                /\ VetoedLast
                /\ DnsWarnings = info.log[Len(info.log)].n
                /\ DnsWarnings <= InvalidDns(family, list)

\* a list with a valid element, an invalid one and a valid one was read with
\* the warning accepted
C25_Witness ==
    /\ DnsRead(AF_INET, << Addr_2(AF_INET), Text_x, Addr_1(AF_INET) >>)
    /\ handler /\ ~ Vetoed /\ DnsWarnings = 1
    /\ property_of(result.connection, NM_SETTING_IP4_CONFIG_SETTING_NAME,
                   NM_SETTING_IP_CONFIG_DNS) = << Addr_2(AF_INET), Addr_1(AF_INET) >>

\* a list with two invalid elements before a valid one was read with the
\* second warning vetoed
DnsVetoedOnSecond ==
    /\ DnsRead(AF_INET6, << Addr_1(AF_INET), Text_x, Addr_1(AF_INET6) >>)
    /\ Vetoed /\ DnsWarnings = 2 /\ ~ DnsSet


serial_given(key) == property_of(connection, NM_SETTING_SERIAL_SETTING_NAME, key)
serial_read(key) == property_of(result.connection, NM_SETTING_SERIAL_SETTING_NAME, key)

ParitySet ==
    \E i \in 1..Len(info.log) :
        info.log[i].ev = "set" /\ info.log[i].key = NM_SETTING_SERIAL_PARITY

\* nm_keyfile_read has returned from reading the file with the parity
ParityRead(text) ==
    /\ pc = "done"
    /\ result.returned
    /\ wresult = "none"
    /\ keyfile = ParityKeyfile(text)

\* on read the codes of the letters and the letters themselves give the
\* parity without a warning; any other value that is not zero raises a WARN
\* and leaves the property unset
ParityOnRead ==
    /\ \A parity \in Parities : \A text \in ParityTexts(parity) :
           ParityRead(text)
           => /\ result.error = 0
              /\ ParitySet
              /\ Raised(NM_KEYFILE_WARN_SEVERITY_WARN) = 0
              /\ serial_read(NM_SETTING_SERIAL_PARITY) = parity
    /\ \A text \in OtherParityTexts :
           ParityRead(text)
           => /\ ~ ParitySet
              /\ handler => Raised(NM_KEYFILE_WARN_SEVERITY_WARN) = 1
              /\ result.error = 0
                 => serial_read(NM_SETTING_SERIAL_PARITY) = NM_SETTING_SERIAL_PARITY_NONE

\* a parity that is written is written as the code of its letter, and the
\* value written is read back as the same parity with no warning
ParityWrittenAsLetter ==
    ( /\ RoundTripDone
      /\ has_setting(connection, NM_SETTING_SERIAL_SETTING_NAME)
      /\ NM_SETTING_SERIAL_PARITY
             \in strdict_keys(written_entries(NM_SETTING_SERIAL_SETTING_NAME)) )
    => /\ \E c \in ParityLetters(serial_given(NM_SETTING_SERIAL_PARITY)) :
              StrDictEntry(NM_SETTING_SERIAL_PARITY, fmt_int(c))
                  \in written_entries(NM_SETTING_SERIAL_SETTING_NAME)
       /\ ReadBack(NM_SETTING_SERIAL_SETTING_NAME)
       /\ serial_read(NM_SETTING_SERIAL_PARITY) = serial_given(NM_SETTING_SERIAL_PARITY)
       /\ Raised(NM_KEYFILE_WARN_SEVERITY_WARN) = 0

\* C26: the parity of a serial setting is always written as the ASCII code
\* of its letter, and the value the writer emits for EVEN, ODD and NONE
\* (when written) is read back by parity_parser as the same parity with no
\* warning; on read the codes of E, e, O, o, N, n and the strings of these
\* single letters give EVEN, ODD, NONE, and any other value that is not zero
\* raises a WARN and leaves the property unset.
C26_Parity == ParityWrittenAsLetter /\ ParityOnRead

\* the parity EVEN is written as the number of the enumeration value, which
\* parity_parser refuses with a warning: the setting read back has the
\* parity NONE
C26_Divergence ==
    /\ RoundTripDone
    /\ has_setting(connection, NM_SETTING_SERIAL_SETTING_NAME)
    /\ serial_given(NM_SETTING_SERIAL_PARITY) = NM_SETTING_SERIAL_PARITY_EVEN
    /\ StrDictEntry(NM_SETTING_SERIAL_PARITY, fmt_int(NM_SETTING_SERIAL_PARITY_EVEN))
           \in written_entries(NM_SETTING_SERIAL_SETTING_NAME)
    /\ Raised(NM_KEYFILE_WARN_SEVERITY_WARN) = 1
    /\ ReadBack(NM_SETTING_SERIAL_SETTING_NAME)
    /\ serial_read(NM_SETTING_SERIAL_PARITY) = NM_SETTING_SERIAL_PARITY_NONE


\* read_setting has read the one group of the file into a setting
GroupRead ==
    /\ pc = "read_loop"
    /\ wresult = "none"
    /\ gi = 2
    /\ Len(keyfile) = 1
    /\ Len(info.connection) = 1

\* the properties that are read from a key of the group of a setting: the
\* addresses and the routes from the keys address1 and route1, the data
\* items of a VPN setting and the options of a bond setting from the keys
\* that are no key of another property, any other property from the key of
\* its name
ReadFrom(setting_name, key) ==
    IF key = Key_address1 THEN {NM_SETTING_IP_CONFIG_ADDRESSES}
    ELSE IF key = Key_route1 THEN {NM_SETTING_IP_CONFIG_ROUTES}
    ELSE IF setting_name = NM_SETTING_VPN_SETTING_NAME /\ key = Name_k
    THEN {NM_SETTING_VPN_DATA}
    ELSE IF setting_name = NM_SETTING_BOND_SETTING_NAME
    THEN IF key = Name_m THEN {NM_SETTING_BOND_OPTIONS} ELSE {}
    ELSE {key}

\* the gateway is read from the gateway field of an address as well
ReadFromOrField(setting_name, key) ==
    IF key = Key_address1
    THEN {NM_SETTING_IP_CONFIG_ADDRESSES, NM_SETTING_IP_CONFIG_GATEWAY}
    ELSE ReadFrom(setting_name, key)

HasKeyFor(property, sources(_, _)) ==
    \E j \in 1..Len(keyfile[1].entries) :
        property \in sources(keyfile[1].name, keyfile[1].entries[j].key)

HoldsDefault(property) ==
    info.connection[1].props[property]
        = property_default(SettingProperties(info.connection[1].name), property)

\* every property of the setting that has no key in the group holds its
\* declared default
C27_DefaultWithoutKey ==
    GroupRead
    => \A property \in DOMAIN info.connection[1].props :
           ~ HasKeyFor(property, ReadFrom) => HoldsDefault(property)

\* C27: for every setting read from a group and every property of it but
\* the addr-gen-mode of an IPv6 setting, if the group has no key from which
\* the property is read (the key of its name, the keys of its patterns and,
\* for the gateway, an address key with a gateway field), the property holds
\* its declared default after the read; the addr-gen-mode of an IPv6 setting
\* without that key is eui64.
C27_DefaultWithoutKeyButAddrGenMode ==
    GroupRead
    => \A property \in DOMAIN info.connection[1].props :
           ~ HasKeyFor(property, ReadFromOrField)
           => IF /\ info.connection[1].name = NM_SETTING_IP6_CONFIG_SETTING_NAME
                 /\ property = NM_SETTING_IP6_CONFIG_ADDR_GEN_MODE
              THEN info.connection[1].props[property]
                       = NM_SETTING_IP6_CONFIG_ADDR_GEN_MODE_EUI64
              ELSE HoldsDefault(property)

\* an IPv6 group with the method only was read: the addresses, the routes,
\* the DNS servers and the gateway hold their defaults and the addr-gen-mode
\* is eui64
C27_Witness ==
    /\ GroupRead
    /\ keyfile[1] = Group(NM_SETTING_IP6_CONFIG_SETTING_NAME,
                          << Entry(NM_SETTING_IP_CONFIG_METHOD, Method_auto) >>)
    /\ info.connection[1].props[NM_SETTING_IP_CONFIG_METHOD] = Method_auto
    /\ HoldsDefault(NM_SETTING_IP_CONFIG_ADDRESSES)
    /\ HoldsDefault(NM_SETTING_IP_CONFIG_DNS)
    /\ info.connection[1].props[NM_SETTING_IP6_CONFIG_ADDR_GEN_MODE]
           = NM_SETTING_IP6_CONFIG_ADDR_GEN_MODE_EUI64


\* the loop of nm_keyfile_read over the groups from the i-th on, as one
\* evaluation
RECURSIVE read_groups_from(_, _, _, _)
read_groups_from(i0, gs, i, seen) ==
    IF i > Len(gs) THEN [info |-> i0, vpn_secrets |-> seen]
    ELSE IF gs[i] = NM_KEYFILE_GROUP_VPN_SECRETS THEN read_groups_from(i0, gs, i + 1, TRUE)
    ELSE Let(read_setting([i0 EXCEPT !.group = gs[i]]),
             LAMBDA r :
                 IF r.info.error # 0 THEN [info |-> r.info, vpn_secrets |-> seen]
                 ELSE read_groups_from(
                          IF r.setting.name # NULL
                          THEN [r.info EXCEPT !.connection =
                                                  nm_connection_add_setting(@, r.setting)]
                          ELSE r.info,
                          gs, i + 1, seen))

\* what nm_keyfile_read returns for the keyfile kf when it is given a
\* handler that accepts every warning
read_with_accepting_handler(kf, name, cwd) ==
    Let(read_groups_from(
            [NoReaderInfo EXCEPT !.keyfile = kf,
                                 !.base_dir = nm_keyfile_read_base_dir(name, cwd),
                                 !.handler = TRUE,
                                 !.vetoes = {},
                                 !.connection = nm_simple_connection_new],
            [i \in 1..Len(kf) |-> kf[i].name], 1, FALSE),
        LAMBDA l :
            [log        |-> l.info.log,
             error      |-> l.info.error,
             connection |-> nm_keyfile_read_vpn_secrets(
                                read_fixup_connection(l.info.connection, kf, name),
                                kf, l.vpn_secrets,
                                setting_index(l.info.connection,
                                              NM_SETTING_VPN_SETTING_NAME))])

\* nm_keyfile_read has returned from a call without a handler
ReadWithoutHandler ==
    /\ pc = "done"
    /\ result.returned
    /\ wresult = "none"
    /\ ~ handler

\* C28: a call of nm_keyfile_read without a read handler is not aborted by
\* a warning: it returns a connection and no error, and the connection is
\* the one a handler that accepts every warning gives.
C28_NoHandlerAccepts ==
    ReadWithoutHandler
    => /\ result.error = 0
       /\ result.connection
              = read_with_accepting_handler(keyfile, keyfile_name, current_dir).connection

\* a file that gives warnings to a handler was read without one
C28_Witness ==
    /\ ReadWithoutHandler
    /\ result.error = 0
    /\ \E i \in 1..Len(read_with_accepting_handler(keyfile, keyfile_name, current_dir).log) :
           read_with_accepting_handler(keyfile, keyfile_name, current_dir).log[i].ev = "warn"
    /\ result.connection
           = read_with_accepting_handler(keyfile, keyfile_name, current_dir).connection


\* every key that the keyfile under construction holds before the step has
\* the same value after it
WrittenKept ==
    \A i \in 1..Len(winfo.keyfile) : \A j \in 1..Len(winfo.keyfile[i].entries) :
        nm_keyfile_plugin_kf_get_value(winfo'.keyfile, winfo.keyfile[i].name,
                                       winfo.keyfile[i].entries[j].key)
            = winfo.keyfile[i].entries[j].value

\* C29: during one nm_keyfile_write every key of a group of the output is
\* set at most once: no property and no map entry is written to a key that
\* an earlier one was written to, so no written value is overwritten by a
\* later one (VPN data items and the declared properties of the VPN setting
\* included).
C29_KeysSetOnce == [][pc = "write_loop" => WrittenKept]_vars

\* the data item user-name = u was written to the key user-name of the group
\* vpn and the property user-name = s was written over it
C29_Divergence ==
    /\ VpnRoundTripDone
    /\ StrDictEntry(NM_SETTING_VPN_USER_NAME, Text_u) \in vpn_given(NM_SETTING_VPN_DATA)
    /\ vpn_given(NM_SETTING_VPN_USER_NAME) = Text_s
    /\ StrDictEntry(NM_SETTING_VPN_USER_NAME, Text_s)
           \in written_entries(NM_SETTING_VPN_SETTING_NAME)
    /\ StrDictEntry(NM_SETTING_VPN_USER_NAME, Text_u)
           \notin written_entries(NM_SETTING_VPN_SETTING_NAME)


\* the strings that get_bytes takes for a possible list of integers
MayBeIntList(t) ==
    /\ t # NULL
    /\ Len(t) >= 1
    /\ \A i \in 1..Len(t) : g_ascii_isspace(t[i]) \/ g_ascii_isdigit(t[i]) \/ t[i] = 59

\* the strings that the reader has read from the keys of the file
StringsRead ==
    {nm_keyfile_plugin_kf_get_string(keyfile, keyfile[i].name, keyfile[i].entries[j].key) :
         i \in 1..Len(keyfile), j \in 1..Len(keyfile[1].entries)}

KeysOfGroup == [j \in 1..Len(keyfile[1].entries) |-> keyfile[1].entries[j].key]

\* nm_keyfile_read has read a file of one group
BuffersFilled == pc = "done" /\ result.returned /\ wresult = "none" /\ Len(keyfile) = 1

\* C30: while get_bytes decodes a list of integers from a string of the
\* length L >= 1 of blanks, digits and semicolons, the number d of bytes
\* stored into the scratch buffer stays below L / 2 + 3, so that d <
\* BIN_DATA_LEN after every store and d + 1 <= BIN_DATA_LEN at the end; and
\* the keys that ip_address_or_route_parser collects are no more than
\* keys_len - i_first, the size build_list is allocated with at the first
\* key that matches.
C30_BufferBounds ==
    BuffersFilled
    => /\ \A t \in StringsRead :
              MayBeIntList(t)
              => /\ get_bytes_int_list_stored(t, 1, 0) < Len(t) \div 2 + 3
                 /\ get_bytes_int_list_stored(t, 1, 0) < BIN_DATA_LEN(Len(t))
                 /\ Len(get_bytes_int_list(t, 1, << >>)) + 1 <= BIN_DATA_LEN(Len(t))
       /\ \A is_routes \in BOOLEAN :
              Len(ip_build_list(KeysOfGroup, is_routes))
                  <= build_list_capacity(KeysOfGroup, is_routes)

\* the SSID 2;5;2 was read: three bytes were stored into a buffer of five
\* before the missing separator was found
C30_Witness ==
    /\ BuffersFilled
    /\ keyfile[1].entries = << Entry(NM_SETTING_WIRELESS_SSID, Str(<<"2", ";", "5", ";", "2">>)) >>
    /\ \A t \in StringsRead :
           MayBeIntList(t) /\ get_bytes_int_list_stored(t, 1, 0) = 3 /\ BIN_DATA_LEN(Len(t)) = 5
    /\ property_of(result.connection, NM_SETTING_WIRELESS_SETTING_NAME,
                   NM_SETTING_WIRELESS_SSID) = Str(<<"2", ";", "5", ";", "2">>)

\* a group whose first key matches no address and whose later keys do was
\* read: build_list is allocated for the keys from the first match on
BuildListFilled ==
    /\ BuffersFilled
    /\ keyfile[1].name = NM_SETTING_IP4_CONFIG_SETTING_NAME
    /\ Len(ip_build_list(KeysOfGroup, FALSE)) >= 1
    /\ build_list_capacity(KeysOfGroup, FALSE) < Len(KeysOfGroup)
    /\ Len(ip_build_list(KeysOfGroup, FALSE)) = build_list_capacity(KeysOfGroup, FALSE)

=============================================================================
